---- MODULE Spec2Model ----
(***************************************************************************)
(* Verification model of the endless-gaming collection pipeline:           *)
(*   - SimpleRateLimiter (utils/rate_limiter.py): one aiolimiter           *)
(*     AsyncLimiter (leaky bucket) per APIEndpoint key, and make_request.  *)
(*   - the per-title collectors (collectors/steamspy_collector.py,         *)
(*     collectors/steam_store_collector.py) and their batch entry points.  *)
(*   - the reconcilers of the games table (save_games_to_database of       *)
(*     steamspy_all_collector.py and steam_collector.py) and the listing   *)
(*     collector's page loop (collect_and_save_games).                     *)
(* Time is counted in integer ticks.  Bucket levels are kept multiplied by *)
(* the limiter's time_period so that the leak (elapsed * max_rate /        *)
(* time_period) stays an integer.                                          *)
(***************************************************************************)
EXTENDS Integers, Sequences, FiniteSets, TLC

\* ---------------------------------------------------------------- bounds
\* number of request tasks (coroutines calling make_request)
NumTasks == 3
\* scaled-down limiter configurations (max_rate, time_period in ticks)
SpyMaxRate == 2
SpyPeriod == 2
AllPeriod == 3
WebMaxRate == 3
StoreMaxRate == 2
StorePeriod == 3

\* tasks that run make_request in the request specification
NumRequests == 2
\* the collectors' batch entry point: input size and batch_size
MaxGames == 3
MaxBatch == 2
\* the games table is checked for app_ids 1..MaxItems
MaxItems == 2
\* the upstream listing has pages 0..MaxPages-1 (every later page is empty)
MaxPages == 2

Tasks == 1..(IF NumTasks >= MaxBatch THEN NumTasks ELSE MaxBatch)

Min(a, b) == IF a <= b THEN a ELSE b
Max(a, b) == IF a >= b THEN a ELSE b

\* ------------------------------------------------------------ APIEndpoint
APIEndpoint == {"steam_web_api", "steam_store_api", "steamspy_api", "steamspy_all_api"}

\* SimpleRateLimiter.__init__: limiters = { key: AsyncLimiter(max_rate, time_period) }
\* (100000/86400, 200/300, 60/60 scaled down; 1 per period kept for the listing key)
limiters ==
  [e \in APIEndpoint |->
     CASE e = "steam_web_api"    -> [max_rate |-> WebMaxRate,   time_period |-> 1]
       [] e = "steam_store_api"  -> [max_rate |-> StoreMaxRate, time_period |-> StorePeriod]
       [] e = "steamspy_api"     -> [max_rate |-> SpyMaxRate,   time_period |-> SpyPeriod]
       [] e = "steamspy_all_api" -> [max_rate |-> 1,            time_period |-> AllPeriod]]

\* mutant: every key is served by one shared limiter instance
limiter_shared(endpoint) == "steamspy_api"

\* _async_throttle: limiter = self.limiters[endpoint]; each key has its own instance
limiter(endpoint) == endpoint

\* the endpoint keys the collectors pass to make_request
UsedEndpoints == {"steamspy_api", "steamspy_all_api"}

MaxPeriod == Max(Max(SpyPeriod, AllPeriod), StorePeriod)
\* ages of admissions are counted up to this cap
AgeCap == NumTasks * MaxPeriod

\* the keys whose admissions are timed against the first one: the listing key
Timed(e) == e = "steamspy_all_api"

\* outcomes of one HTTP GET (session.get + raise_for_status + json)
GetOutcomes == {"ok", "http_error", "other_error"}

\* the key fetch_storefront_data passes: APIEndpoint.STEAM_STORE_APPDETAILS_API
StoreKey == "steam_store_appdetails_api"

\* FetchStatus
FetchStatus == {"pending", "success", "failed", "not_found"}

\* ------------------------------------------------------------ JSON payloads
\* A response document: the keys present, the value under 'appid' (-1: None)
\* and, for the storefront shape, the 'success' flag of the entry str(app_id).
NoResponse == [keys |-> {}, appid |-> -1, success |-> FALSE]

\* documents the per-title statistics endpoint can return
SteamSpyResponses(app_id) ==
  { [keys |-> {},                appid |-> -1,     success |-> FALSE],
    [keys |-> {"name"},          appid |-> -1,     success |-> FALSE],
    [keys |-> {"appid", "name"}, appid |-> 0,      success |-> FALSE],
    [keys |-> {"appid", "name"}, appid |-> app_id, success |-> FALSE] }

\* documents the storefront endpoint can return ("entry" stands for str(app_id))
StoreResponses ==
  { [keys |-> {},        appid |-> -1, success |-> FALSE],
    [keys |-> {"other"}, appid |-> -1, success |-> FALSE],
    [keys |-> {"entry"}, appid |-> -1, success |-> FALSE],
    [keys |-> {"entry"}, appid |-> -1, success |-> TRUE] }

\* the document a plain make_request caller gets
OtherResponses == { [keys |-> {"test"}, appid |-> -1, success |-> FALSE] }

\* response_data.get('appid')
GetAppid(d) == IF "appid" \in d.keys THEN d.appid ELSE -1
\* Python truthiness of an optional integer
Truthy(v) == v # -1 /\ v # 0

\* rows of game_metadata / storefront_data (bookkeeping columns)
NoRecord == [app_id |-> 0, fetch_status |-> "pending", fetch_attempts |-> 0]
Absent == [app_id |-> 0, fetch_status |-> "absent", fetch_attempts |-> 0]
AppIds == 1..MaxGames

\* rows of the games table: app_id -> (name, is_active); NoGame: no such row
ItemIds == 1..MaxItems
Names == {"old", "new"}
NoGame == [name |-> "", is_active |-> FALSE]
\* a list of Game objects with distinct app_ids: app_id -> name ("": not in the list)
GameLists == [ItemIds -> Names \cup {""}]
\* result of a save_games_to_database call; NoCall: none has been made
NoCall == [variant |-> "none", games |-> [a \in ItemIds |-> ""], deactivate_missing |-> FALSE,
           before |-> [a \in ItemIds |-> NoGame],
           new_games |-> 0, updated_games |-> 0, deactivated_games |-> 0]

VARIABLES
  level,      \* limiter -> bucket level * time_period
  elapsed,    \* limiter -> ticks since _last_check (tracked while level > 0)
  waiters,    \* limiter -> tasks registered in _waiters, in insertion order
  signalled,  \* task -> its waiter future has a result set
  pc,         \* task -> position in make_request
  ep,         \* task -> endpoint key of its request
  op,         \* task -> the operation it runs: "_async_throttle" or "make_request"
  waited,     \* task -> ticks since it suspended (wait_for / sleep)
  attempts,   \* task -> number of GETs it has issued
  result,     \* task -> outcome of make_request: "ok" or the exception raised
  payload,    \* task -> JSON document returned by make_request
  arg,        \* task -> app_id argument of the fetch coroutine
  rec,        \* task -> record returned by the fetch coroutine
  admitLog,   \* endpoint -> per admission, age of the key's first admission when granted
  firstAge,   \* endpoint -> ticks since the first admission (-1: none yet, or not timed)
  recent,     \* endpoint -> ages of the admissions younger than time_period
  kind,       \* which collector runs: "steamspy", "steam_store" or "steamspy_legacy"
              \* (collectors/steamspy_collector.py); "none": no collector
  games,      \* collect_*_for_games: the input list (app_ids)
  batch_size, \* collect_*_for_games: batch_size argument
  has_cb,     \* collect_*_for_games: a progress_callback was passed
  cpc,        \* position of the collector coroutine
  i,          \* offset of the current batch in games
  j,          \* index of the item being processed in the current batch
  store,      \* the table (game_metadata / storefront_data): app_id -> record
  counters,   \* successful_fetches, failed_fetches, not_found
  commits,    \* app_ids committed by this run, in commit order
  callbacks,  \* progress_callback invocations of this run
  ret,        \* the returned statistics
  db,         \* the games table: app_id -> row
  last,       \* the latest save_games_to_database call: arguments, table before, counts
  lpc,        \* position of collect_and_save_games ("off": not running)
  page,       \* collect_and_save_games: page
  max_pages,  \* collect_and_save_games: max_pages argument (-1: None)
  upstream,   \* the upstream listing: app_id -> the page that lists it (-1: unlisted)
  totals,     \* collect_and_save_games: the running totals and pages_processed
  fetched,    \* pages fetch_games_page was called with, in call order
  saved,      \* pages whose save_games_to_database has committed, in order
  db0,        \* the games table when collect_and_save_games started
  lret,       \* the dictionary collect_and_save_games returned
  pf_games,   \* process_games_parallel: the games argument
  pf_batch_size,         \* ParallelMetadataFetcher.batch_size
  steam_store_collector, \* ParallelMetadataFetcher has a steam_store_collector
  wpc,        \* position of process_games_parallel ("off": not running)
  batch_tasks,\* the batch each process_batch coroutine was created with, in order
  bpc,        \* batch -> position of its process_batch coroutine
  calls,      \* batch -> the collector calls of its coroutine, their returns and raises
  completed_batches, \* the list process_games_parallel returned
  raisedBy,   \* the batch whose exception asyncio.gather propagates (0: none)
  game_metadata,   \* the game_metadata table as the export reads it: app_id -> row
  storefront_data, \* the storefront_data table: app_id -> row
  xpc,        \* "exported": script_out and api_out were computed from the tables as they are
  script_out, \* the list export_master_json.get_master_json_data returned
  api_status, \* the status of the response of GET /discovery/games/master.json (0: none)
  api_out,    \* the array in the payload of that response
  price_cents,\* _convert_price: the argument
  price,      \* _convert_price: the value returned
  ppc,        \* position of the _convert_price call ("off": none)
  conflict,   \* the latest save_games_to_database call that hit an IntegrityError
  chunk_i,        \* batch -> i of the loop of the collector call its coroutine awaits
  batch_metadata, \* batch -> the results of the fetches of its chunk ("pending": none yet)
  processed,      \* batch -> the counters of that collector call, added up
  meta_rows,      \* the rows inserted into game_metadata, in insertion order
  store_rows,     \* the rows inserted into storefront_data, in insertion order
  progress,       \* the invocations of the orchestrator's progress_callback, in order
  skip_storefront \* collect_interleaved: the skip_storefront argument

gateVars == <<level, elapsed, waiters, signalled, admitLog, firstAge, recent>>
taskVars == <<pc, ep, op, waited, attempts, result, payload, arg, rec>>
collVars == <<kind, games, batch_size, has_cb, cpc, i, j, store, counters, commits, callbacks, ret>>
listVars == <<db, last, lpc, page, max_pages, upstream, totals, fetched, saved, db0, lret>>
workerVars == <<pf_games, pf_batch_size, steam_store_collector, wpc, batch_tasks, bpc, calls,
                completed_batches, raisedBy>>
exportVars == <<game_metadata, storefront_data, xpc, script_out, api_status, api_out>>
priceVars == <<price_cents, price, ppc>>
batchVars == <<chunk_i, batch_metadata, processed, meta_rows, store_rows, progress>>
outerVars == <<workerVars, exportVars, priceVars, conflict, batchVars, skip_storefront>>
vars == <<gateVars, taskVars, collVars, listVars, outerVars>>

\* ------------------------------------------------------------- AsyncLimiter
\* mutant: the bucket never drips
Leak_stuck(l) == level[l]

\* AsyncLimiter._leak: level after dripping out elapsed * rate_per_sec
Leak(l) == Max(level[l] - elapsed[l] * limiters[l].max_rate, 0)

\* mutant: the requested amount is left out of the capacity test
HasCapacity_noamount(l) ==
  Leak(l) <= limiters[l].max_rate * limiters[l].time_period

\* AsyncLimiter.has_capacity: level + amount <= max_rate (amount = 1)
HasCapacity(l) ==
  Leak(l) + limiters[l].time_period <= limiters[l].max_rate * limiters[l].time_period

\* has_capacity: "if requested < max_rate" some waiter may be signalled
MaySignal(l) ==
  Leak(l) + limiters[l].time_period < limiters[l].max_rate * limiters[l].time_period

\* first waiter (insertion order) other than t whose future is not done
FirstPending(l, t) ==
  LET idx == {k \in 1..Len(waiters[l]) :
                /\ waiters[l][k] # t
                /\ pc[waiters[l][k]] = "wait"
                /\ ~signalled[waiters[l][k]]}
  IN IF idx = {} THEN 0
     ELSE waiters[l][CHOOSE k \in idx : \A m \in idx : k <= m]

Remove(s, x) == SelectSeq(s, LAMBDA y : y # x)

\* wait_for(shield(fut), 1 / rate_per_sec): future done, or the timeout elapsed
Woken(t) ==
  \/ signalled[t]
  \/ waited[t] * limiters[ep[t]].max_rate >= limiters[ep[t]].time_period

TypeOK ==
  /\ level \in [APIEndpoint -> Nat]
  /\ elapsed \in [APIEndpoint -> 0..MaxPeriod]
  /\ pc \in [Tasks -> {"idle", "created", "throttle", "wait", "get1", "sleep",
                       "returned", "raised", "done"}]
  /\ attempts \in [Tasks -> 0..2]
  /\ \A a \in AppIds : store[a].fetch_status \in FetchStatus \cup {"absent"}

InitGate ==
  /\ level = [e \in APIEndpoint |-> 0]
  /\ elapsed = [e \in APIEndpoint |-> 0]
  /\ waiters = [e \in APIEndpoint |-> <<>>]
  /\ signalled = [t \in Tasks |-> FALSE]
  /\ admitLog = [e \in APIEndpoint |-> <<>>]
  /\ firstAge = [e \in APIEndpoint |-> -1]
  /\ recent = [e \in APIEndpoint |-> <<>>]

InitTasks ==
  /\ pc = [t \in Tasks |-> "idle"]
  /\ ep = [t \in Tasks |-> "steamspy_api"]
  /\ op = [t \in Tasks |-> "none"]
  /\ waited = [t \in Tasks |-> 0]
  /\ attempts = [t \in Tasks |-> 0]
  /\ result = [t \in Tasks |-> "none"]
  /\ payload = [t \in Tasks |-> NoResponse]
  /\ arg = [t \in Tasks |-> 0]
  /\ rec = [t \in Tasks |-> NoRecord]

\* collect_and_save_games is not running; the games table is empty
NoTotals == [total_games_processed |-> 0, new_games |-> 0, updated_games |-> 0,
             deactivated_games |-> 0, pages_processed |-> 0]
NoReturn == [total_games_processed |-> -1, new_games |-> -1, updated_games |-> -1,
             deactivated_games |-> -1, pages_processed |-> -1]
InitListOff ==
  /\ db = [a \in ItemIds |-> NoGame]
  /\ last = NoCall
  /\ lpc = "off"
  /\ page = 0
  /\ max_pages = -1
  /\ upstream = [a \in ItemIds |-> -1]
  /\ totals = NoTotals
  /\ fetched = <<>>
  /\ saved = <<>>
  /\ db0 = [a \in ItemIds |-> NoGame]
  /\ lret = NoReturn

\* no orchestrator is running
InitWorkerOff ==
  /\ pf_games = <<>>
  /\ pf_batch_size = 1
  /\ steam_store_collector = FALSE
  /\ wpc = "off"
  /\ batch_tasks = <<>>
  /\ bpc = <<>>
  /\ calls = <<>>
  /\ completed_batches = <<>>
  /\ raisedBy = 0

\* an optional value: None or a value
None == <<>>
Some(v) == <<v>>
NoMetadata == [fetch_status |-> "absent", owners_estimate |-> None, tags_json |-> None,
               score_rank |-> None, developer |-> None, publisher |-> None,
               positive_reviews |-> None, negative_reviews |-> None]
NoStorefront == [fetch_status |-> "absent", developers |-> None, publishers |-> None]

\* no export has run on the empty tables
InitExportOff ==
  /\ game_metadata = [a \in ItemIds |-> NoMetadata]
  /\ storefront_data = [a \in ItemIds |-> NoStorefront]
  /\ xpc = "idle"
  /\ script_out = <<>>
  /\ api_status = 0
  /\ api_out = <<>>

\* the values raw_data.get('price') can have
NonePrice == [type |-> "NoneType", int |-> 0, str |-> <<>>]
IntPrice(n) == [type |-> "int", int |-> n, str |-> <<>>]
StrPrice(cs) == [type |-> "str", int |-> 0, str |-> cs]

\* no _convert_price call
InitPriceOff ==
  /\ price_cents = NonePrice
  /\ price = None
  /\ ppc = "off"

\* no save_games_to_database call has hit an IntegrityError
NoConflict == [games |-> [a \in ItemIds |-> ""], deactivate_missing |-> FALSE, item |-> 0,
               autoflush |-> FALSE, before |-> [a \in ItemIds |-> NoGame],
               after |-> [a \in ItemIds |-> NoGame], raised |-> FALSE,
               new_games |-> 0, updated_games |-> 0, deactivated_games |-> 0]

\* no collector call of a process_batch coroutine is followed
InitBatchOff ==
  /\ chunk_i = <<>>
  /\ batch_metadata = <<>>
  /\ processed = <<>>
  /\ meta_rows = <<>>
  /\ store_rows = <<>>
  /\ progress = <<>>

InitOuterOff ==
  /\ InitWorkerOff
  /\ InitExportOff
  /\ InitPriceOff
  /\ InitBatchOff
  /\ skip_storefront = FALSE
  /\ conflict = NoConflict

\* no collector is running
InitCollOff ==
  /\ kind = "none"
  /\ games = <<>>
  /\ batch_size = 1
  /\ has_cb = FALSE
  /\ cpc = "off"
  /\ i = 0
  /\ j = 0
  /\ store = [a \in AppIds |-> Absent]
  /\ counters = [successful_fetches |-> 0, failed_fetches |-> 0, not_found |-> 0]
  /\ commits = <<>>
  /\ callbacks = <<>>
  /\ ret = [total_games_processed |-> -1, successful_fetches |-> -1,
            failed_fetches |-> -1, not_found |-> -1]

\* nothing is running: limiters fresh, tables empty
Init ==
  /\ InitGate
  /\ InitTasks
  /\ InitListOff
  /\ InitCollOff
  /\ InitOuterOff

\* task ids are interchangeable labels: coroutines are created in id order
NextToStart(t) == pc[t] = "idle" /\ \A s \in Tasks : s < t => pc[s] # "idle"

\* _async_throttle(endpoint) is called on its own (as throttle() does)
Throttle(t, e) ==
  /\ NextToStart(t)
  /\ pc' = [pc EXCEPT ![t] = "throttle"]
  /\ ep' = [ep EXCEPT ![t] = e]
  /\ op' = [op EXCEPT ![t] = "_async_throttle"]
  /\ UNCHANGED <<outerVars, listVars, gateVars, collVars, waited, attempts, result, payload, arg, rec>>

\* make_request(endpoint, url) is called: the coroutine is created
MakeRequest(t, e) ==
  /\ NextToStart(t)
  /\ t <= NumRequests
  /\ pc' = [pc EXCEPT ![t] = "throttle"]
  /\ ep' = [ep EXCEPT ![t] = e]
  /\ op' = [op EXCEPT ![t] = "make_request"]
  /\ UNCHANGED <<outerVars, listVars, gateVars, collVars, waited, attempts, result, payload, arg, rec>>

\* _async_throttle -> AsyncLimiter.acquire: one pass of
\*   while not has_capacity(): register future, wait_for(...); fut.cancel()
\*   _waiters.pop(task); _level += amount
Acquire(t) ==
  /\ \/ pc[t] = "throttle"
     \/ pc[t] = "wait" /\ Woken(t)
  /\ LET l == limiter(ep[t])
         T == limiters[l].time_period
         sig == IF MaySignal(l) THEN FirstPending(l, t) ELSE 0
     IN /\ elapsed' = [elapsed EXCEPT ![l] = 0]
        /\ signalled' = [s \in Tasks |-> IF s = t THEN FALSE
                                         ELSE IF s = sig THEN TRUE ELSE signalled[s]]
        /\ IF HasCapacity(l)
           THEN /\ level' = [level EXCEPT ![l] = Leak(l) + T]
                /\ waiters' = [waiters EXCEPT ![l] = Remove(@, t)]
                /\ admitLog' = [admitLog EXCEPT ![l] = Append(@, Max(firstAge[l], 0))]
                /\ firstAge' = [firstAge EXCEPT ![l] = IF Timed(l) THEN Max(@, 0) ELSE @]
                /\ recent' = [recent EXCEPT ![l] = Append(@, 0)]
                /\ pc' = [pc EXCEPT ![t] = IF op[t] = "_async_throttle" THEN "returned" ELSE "get1"]
           ELSE /\ level' = [level EXCEPT ![l] = Leak(l)]
                /\ waiters' = [waiters EXCEPT ![l] =
                                 IF \E k \in 1..Len(@) : @[k] = t THEN @ ELSE Append(@, t)]
                /\ pc' = [pc EXCEPT ![t] = "wait"]
                /\ UNCHANGED <<admitLog, firstAge, recent>>
  /\ waited' = [waited EXCEPT ![t] = 0]
  /\ UNCHANGED <<outerVars, listVars, collVars, ep, op, attempts, result, payload, arg, rec>>

\* the documents the endpoint of task t can answer with
Responses(t) ==
  CASE op[t] = "fetch_game_metadata"   -> SteamSpyResponses(arg[t])
    [] op[t] = "fetch_storefront_data" -> StoreResponses
    [] OTHER                           -> OtherResponses

\* make_request: response = await session.get(url); raise_for_status(); json()
FirstGet(t, o, d) ==
  /\ pc[t] = "get1"
  /\ attempts' = [attempts EXCEPT ![t] = @ + 1]
  /\ CASE o = "ok" ->
            /\ pc' = [pc EXCEPT ![t] = "returned"]
            /\ result' = [result EXCEPT ![t] = "ok"]
            /\ payload' = [payload EXCEPT ![t] = d]
       [] o = "http_error" ->
            /\ pc' = [pc EXCEPT ![t] = "sleep"]
            /\ UNCHANGED <<result, payload>>
       [] o = "other_error" ->
            /\ pc' = [pc EXCEPT ![t] = "raised"]
            /\ result' = [result EXCEPT ![t] = o]
            /\ UNCHANGED payload
  /\ waited' = [waited EXCEPT ![t] = 0]
  /\ UNCHANGED <<outerVars, listVars, gateVars, collVars, ep, op, arg, rec>>

\* variant: the except branch retries again after every HTTP error
RetryGet_again(t, o, d) ==
  /\ pc[t] = "sleep"
  /\ waited[t] >= 1
  /\ attempts' = [attempts EXCEPT ![t] = @ + 1]
  /\ CASE o = "ok" ->
            /\ pc' = [pc EXCEPT ![t] = "returned"]
            /\ result' = [result EXCEPT ![t] = "ok"]
            /\ payload' = [payload EXCEPT ![t] = d]
       [] o = "http_error" ->
            /\ pc' = [pc EXCEPT ![t] = "sleep"]
            /\ UNCHANGED <<result, payload>>
       [] o = "other_error" ->
            /\ pc' = [pc EXCEPT ![t] = "raised"]
            /\ result' = [result EXCEPT ![t] = o]
            /\ UNCHANGED payload
  /\ waited' = [waited EXCEPT ![t] = 0]
  /\ UNCHANGED <<outerVars, listVars, gateVars, collVars, ep, op, arg, rec>>

\* make_request, except httpx.HTTPError: await asyncio.sleep(1); second session.get
RetryGet(t, o, d) ==
  /\ pc[t] = "sleep"
  /\ waited[t] >= 1
  /\ attempts' = [attempts EXCEPT ![t] = @ + 1]
  /\ IF o = "ok"
     THEN /\ pc' = [pc EXCEPT ![t] = "returned"]
          /\ result' = [result EXCEPT ![t] = "ok"]
          /\ payload' = [payload EXCEPT ![t] = d]
     ELSE /\ pc' = [pc EXCEPT ![t] = "raised"]
          /\ result' = [result EXCEPT ![t] = o]
          /\ UNCHANGED payload
  /\ waited' = [waited EXCEPT ![t] = 0]
  /\ UNCHANGED <<outerVars, listVars, gateVars, collVars, ep, op, arg, rec>>

\* the event loop's clock advances by one tick
Tick ==
  /\ elapsed' = [e \in APIEndpoint |->
                   IF level[e] > 0 THEN Min(elapsed[e] + 1, limiters[e].time_period) ELSE 0]
  /\ waited' = [t \in Tasks |->
                   CASE pc[t] = "wait"  -> Min(waited[t] + 1, limiters[ep[t]].time_period)
                     [] pc[t] = "sleep" -> 1
                     [] OTHER           -> 0]
  /\ firstAge' = [e \in APIEndpoint |->
                   IF firstAge[e] >= 0 THEN Min(firstAge[e] + 1, AgeCap) ELSE -1]
  /\ recent' = [e \in APIEndpoint |->
                   LET aged == [k \in 1..Len(recent[e]) |-> recent[e][k] + 1]
                   IN SelectSeq(aged, LAMBDA a : a < limiters[e].time_period)]
  /\ UNCHANGED <<outerVars, listVars, level, waiters, signalled, admitLog, collVars,
                 pc, ep, op, attempts, result, payload, arg, rec>>

\* ------------------------------------------------------------- collectors
\* GETs sent to an endpoint by the make_request calls, admissions granted for it
GetsSent(e) ==
  LET RECURSIVE Sum(_)
      Sum(n) == IF n = 0 THEN 0
                ELSE Sum(n - 1) + (IF ep[n] = e /\ op[n] = "make_request" THEN attempts[n] ELSE 0)
  IN Sum(NumTasks)
Admissions(e) == Len(admitLog[e])

\* GameMetadata(app_id, fetch_status=NOT_FOUND, fetch_attempts=1) and the like
Record(app_id, status) == [app_id |-> app_id, fetch_status |-> status, fetch_attempts |-> 1]

\* mutant: only the empty payload is treated as not found
GameMetadataOf_emptyonly(app_id, res, d) ==
  IF res = "ok"
  THEN IF d.keys = {}
       THEN Record(app_id, "not_found")
       ELSE Record(app_id, "success")
  ELSE Record(app_id, "failed")

\* fetch_game_metadata: the record built from make_request's outcome
GameMetadataOf(app_id, res, d) ==
  IF res = "ok"
  THEN IF d.keys = {} \/ ~Truthy(GetAppid(d))
       THEN Record(app_id, "not_found")
       ELSE Record(app_id, "success")
  ELSE Record(app_id, "failed")

\* mutant: a fetch that failed records no attempt
StorefrontDataOf_noattempt(app_id, res, d) ==
  [Record(app_id, "failed") EXCEPT !.fetch_attempts = 0]

\* fetch_storefront_data: the record built from make_request's outcome
StorefrontDataOf(app_id, res, d) ==
  IF res = "ok"
  THEN IF "entry" \notin d.keys \/ ~d.success
       THEN Record(app_id, "not_found")
       ELSE Record(app_id, "success")
  ELSE Record(app_id, "failed")

\* fetch_game_metadata(app_id) starts: make_request(APIEndpoint.STEAMSPY_API, url)
FetchGameMetadata(t) ==
  /\ pc[t] = "created"
  /\ op[t] = "fetch_game_metadata"
  /\ pc' = [pc EXCEPT ![t] = "throttle"]
  /\ ep' = [ep EXCEPT ![t] = "steamspy_api"]
  /\ UNCHANGED <<outerVars, listVars, gateVars, collVars, op, waited, attempts, result, payload, arg, rec>>

\* fetch_storefront_data(app_id) starts: APIEndpoint.STEAM_STORE_APPDETAILS_API is
\* evaluated inside the try block; a missing member raises AttributeError
FetchStorefrontData(t) ==
  /\ pc[t] = "created"
  /\ op[t] = "fetch_storefront_data"
  /\ IF StoreKey \in APIEndpoint
     THEN /\ pc' = [pc EXCEPT ![t] = "throttle"]
          /\ ep' = [ep EXCEPT ![t] = StoreKey]
          /\ UNCHANGED rec
     ELSE /\ pc' = [pc EXCEPT ![t] = "done"]
          /\ rec' = [rec EXCEPT ![t] = StorefrontDataOf(arg[t], "attribute_error", payload[t])]
          /\ UNCHANGED ep
  /\ UNCHANGED <<outerVars, listVars, gateVars, collVars, op, waited, attempts, result, payload, arg>>

\* the fetch coroutine resumes after make_request returned or raised
FetchReturn(t) ==
  /\ pc[t] \in {"returned", "raised"}
  /\ op[t] \in {"fetch_game_metadata", "fetch_storefront_data"}
  /\ rec' = [rec EXCEPT ![t] =
               IF op[t] = "fetch_game_metadata"
               THEN GameMetadataOf(arg[t], result[t], payload[t])
               ELSE StorefrontDataOf(arg[t], result[t], payload[t])]
  /\ pc' = [pc EXCEPT ![t] = "done"]
  /\ attempts' = [attempts EXCEPT ![t] = 0]
  /\ result' = [result EXCEPT ![t] = "none"]
  /\ payload' = [payload EXCEPT ![t] = NoResponse]
  /\ UNCHANGED <<outerVars, listVars, gateVars, collVars, ep, op, waited, arg>>

\* games[i:i + batch_size]
Batch == SubSeq(games, i + 1, Min(i + batch_size, Len(games)))

\* mutant: the row is changed in the session but never committed
Upsert_unsaved(st, r) == st

\* save_*_to_database([record]): update the existing row or add a new one, commit
Upsert(st, r) ==
  IF st[r.app_id] # Absent
  THEN [st EXCEPT ![r.app_id] = [@ EXCEPT !.fetch_status = r.fetch_status,
                                          !.fetch_attempts = r.fetch_attempts]]
  ELSE [st EXCEPT ![r.app_id] = r]

\* mutant: a failed fetch is not counted
Count_nofailed(c, status) ==
  IF status = "success" THEN [c EXCEPT !.successful_fetches = @ + 1]
  ELSE IF status = "not_found" THEN [c EXCEPT !.not_found = @ + 1]
  ELSE c

\* the counter a fetch status adds to
Count(c, status) ==
  IF status = "success" THEN [c EXCEPT !.successful_fetches = @ + 1]
  ELSE IF status = "not_found" THEN [c EXCEPT !.not_found = @ + 1]
  ELSE [c EXCEPT !.failed_fetches = @ + 1]

\* a run of collect_metadata_for_games / collect_storefront_data_for_games starts
InitCollect ==
  /\ InitGate
  /\ InitTasks
  /\ InitListOff
  /\ InitOuterOff
  /\ kind \in {"steamspy", "steam_store", "steamspy_legacy"}
  /\ \E n \in 1..MaxGames : games = [k \in 1..n |-> k]
  /\ batch_size \in 1..MaxBatch
  /\ has_cb \in BOOLEAN
  /\ cpc = "loop"
  /\ i = 0
  /\ j = 0
  /\ store \in {[a \in AppIds |-> Absent], [a \in AppIds |-> Record(a, "success")]}
  /\ counters = [successful_fetches |-> 0, failed_fetches |-> 0, not_found |-> 0]
  /\ commits = <<>>
  /\ callbacks = <<>>
  /\ ret = [total_games_processed |-> -1, successful_fetches |-> -1,
            failed_fetches |-> -1, not_found |-> -1]

\* for i in range(0, total_games, batch_size): tasks = [fetch(game.app_id) ...];
\* await asyncio.gather(*tasks)
StartBatch ==
  /\ cpc = "loop"
  /\ i < Len(games)
  /\ pc' = [t \in Tasks |-> IF t <= Len(Batch) THEN "created" ELSE "idle"]
  /\ arg' = [t \in Tasks |-> IF t <= Len(Batch) THEN Batch[t] ELSE 0]
  /\ op' = [t \in Tasks |-> IF t > Len(Batch) THEN "none"
                            ELSE IF kind \in {"steamspy", "steamspy_legacy"}
                                 THEN "fetch_game_metadata"
                            ELSE "fetch_storefront_data"]
  /\ attempts' = [t \in Tasks |-> 0]
  /\ result' = [t \in Tasks |-> "none"]
  /\ payload' = [t \in Tasks |-> NoResponse]
  /\ rec' = [t \in Tasks |-> NoRecord]
  /\ waited' = [t \in Tasks |-> 0]
  /\ cpc' = "gather"
  /\ j' = 1
  /\ UNCHANGED <<outerVars, listVars, gateVars, ep, kind, games, batch_size, has_cb, i, store,
                 counters, commits, callbacks, ret>>

\* gather has returned: every fetch of the batch is done
Gathered == cpc = "gather" /\ \A t \in 1..Len(Batch) : pc[t] = "done"

\* after item j: next item of the batch, or next batch
Advance ==
  IF j < Len(Batch)
  THEN j' = j + 1 /\ cpc' = "gather" /\ UNCHANGED i
  ELSE j' = 0 /\ cpc' = "loop" /\ i' = i + batch_size

\* for j, metadata in enumerate(batch_metadata): save this item, update counters
SaveItem ==
  /\ Gathered
  /\ kind \in {"steamspy", "steam_store"}
  /\ j >= 1 /\ j <= Len(Batch)
  /\ store' = Upsert(store, rec[j])
  /\ commits' = Append(commits, rec[j].app_id)
  /\ counters' = Count(counters, rec[j].fetch_status)
  /\ IF has_cb
     THEN cpc' = "notify" /\ UNCHANGED <<i, j>>
     ELSE Advance
  /\ UNCHANGED <<outerVars, listVars, gateVars, taskVars, kind, games, batch_size, has_cb, callbacks, ret>>

\* mutant: items that were not found are left out of the running count
Current_found(c) == c.successful_fetches + c.failed_fetches

\* current = successful_fetches + failed_fetches + not_found
Current(c) == c.successful_fetches + c.failed_fetches + c.not_found

\* progress_callback(current, total_games, game.name, ..., fetch_status)
Notify ==
  /\ cpc = "notify"
  /\ callbacks' = Append(callbacks,
       [current |-> Current(counters), total |-> Len(games),
        name |-> Batch[j], status |-> rec[j].fetch_status])
  /\ Advance
  /\ UNCHANGED <<outerVars, listVars, gateVars, taskVars, kind, games, batch_size, has_cb, store,
                 counters, commits, ret>>

\* collectors/steamspy_collector.py, for metadata in batch_metadata: the counter
\* is updated and progress_callback(current, total_games, fetch_status) is called
\* (no name is passed: 0); nothing of the batch is saved yet
CountItem ==
  /\ Gathered
  /\ kind = "steamspy_legacy"
  /\ j >= 1 /\ j <= Len(Batch)
  /\ counters' = Count(counters, rec[j].fetch_status)
  /\ callbacks' = IF has_cb
                  THEN Append(callbacks,
                         [current |-> Current(counters'), total |-> Len(games),
                          name |-> 0, status |-> rec[j].fetch_status])
                  ELSE callbacks
  /\ IF j < Len(Batch)
     THEN j' = j + 1 /\ UNCHANGED cpc
     ELSE j' = 0 /\ cpc' = "save"
  /\ UNCHANGED <<outerVars, listVars, gateVars, taskVars, kind, games, batch_size, has_cb, i, store, commits, ret>>

\* save_metadata_to_database(metadata_list): every row of the list is updated or
\* added, then one commit
SaveMetadataToDatabase(st, n) ==
  LET RECURSIVE Go(_, _)
      Go(s, k) == IF k > n THEN s ELSE Go(Upsert(s, rec[k]), k + 1)
  IN Go(st, 1)

\* collectors/steamspy_collector.py: await self.save_metadata_to_database(batch_metadata)
\* after the counting loop, then the next batch
SaveBatch ==
  /\ cpc = "save"
  /\ store' = SaveMetadataToDatabase(store, Len(Batch))
  /\ commits' = commits \o [k \in 1..Len(Batch) |-> rec[k].app_id]
  /\ cpc' = "loop"
  /\ i' = i + batch_size
  /\ UNCHANGED <<outerVars, listVars, gateVars, taskVars, kind, games, batch_size, has_cb, j, counters,
                 callbacks, ret>>

\* the loop is over: return the statistics
Return ==
  /\ cpc = "loop"
  /\ i >= Len(games)
  /\ ret' = [total_games_processed |-> Len(games),
             successful_fetches |-> counters.successful_fetches,
             failed_fetches |-> counters.failed_fetches,
             not_found |-> counters.not_found]
  /\ cpc' = "done"
  /\ UNCHANGED <<outerVars, listVars, gateVars, taskVars, kind, games, batch_size, has_cb, i, j, store,
                 counters, commits, callbacks>>

\* ------------------------------------------------------------- reconciler
\* current_app_ids = {game.app_id for game in games}
current_app_ids(g) == {a \in ItemIds : g[a] # ""}

\* variant: an existing row gets the name only
ApplyGamesAll_nameonly(d, g) ==
  [a \in ItemIds |->
     IF g[a] = "" THEN d[a]
     ELSE IF d[a] # NoGame THEN [d[a] EXCEPT !.name = g[a]]
     ELSE [name |-> g[a], is_active |-> TRUE]]

\* steamspy_all_collector, for game in games: an existing row gets the name and
\* is_active = True; a missing one is added (parse_all_response sets is_active=True)
ApplyGamesAll(d, g) ==
  [a \in ItemIds |->
     IF g[a] = "" THEN d[a]
     ELSE IF d[a] # NoGame THEN [d[a] EXCEPT !.name = g[a], !.is_active = TRUE]
     ELSE [name |-> g[a], is_active |-> TRUE]]

\* steam_collector, for game in games: the name is written when it differs, the
\* row is reactivated when inactive; a missing row is added (is_active defaults to True)
ApplyGamesSteam(d, g) ==
  [a \in ItemIds |->
     IF g[a] = "" THEN d[a]
     ELSE IF d[a] # NoGame
          THEN [name |-> IF d[a].name # g[a] THEN g[a] ELSE d[a].name,
                is_active |-> IF ~d[a].is_active THEN TRUE ELSE d[a].is_active]
     ELSE [name |-> g[a], is_active |-> TRUE]]

\* new_games: one per game of the list without a row
NewGames(d, g) == Cardinality({a \in current_app_ids(g) : d[a] = NoGame})

\* steamspy_all_collector, updated_games: one per game of the list that has a row
UpdatedAll(d, g) == Cardinality({a \in current_app_ids(g) : d[a] # NoGame})

\* steam_collector, updated_games: one per changed name plus one per reactivation
UpdatedSteam(d, g) ==
  Cardinality({a \in current_app_ids(g) : d[a] # NoGame /\ d[a].name # g[a]})
  + Cardinality({a \in current_app_ids(g) : d[a] # NoGame /\ ~d[a].is_active})

\* mutant: the sweep query is not restricted to active rows
Missing_anyrow(d, cur) == {a \in ItemIds : d[a] # NoGame /\ a \notin cur}

\* query(Game).filter(is_active == True), if app_id not in current_app_ids
Missing(d, cur) == {a \in ItemIds : d[a] # NoGame /\ d[a].is_active /\ a \notin cur}

\* mutant: a missing game is deleted from the table
Deactivate_delete(d, cur) ==
  [a \in ItemIds |-> IF a \in Missing(d, cur) THEN NoGame ELSE d[a]]

\* existing_game.is_active = False for every missing game
Deactivate(d, cur) ==
  [a \in ItemIds |-> IF a \in Missing(d, cur) THEN [d[a] EXCEPT !.is_active = FALSE] ELSE d[a]]

\* save_games_to_database(games, session[, deactivate_missing]) of the listing
\* collector ("all") or of the game-list collector ("steam", which always
\* sweeps): upserts, sweep, commit; the counts are returned
SaveGamesToDatabase(variant, g, dm) ==
  LET cur == current_app_ids(g)
      sweep == variant = "steam" \/ dm
      d1 == IF variant = "all" THEN ApplyGamesAll(db, g) ELSE ApplyGamesSteam(db, g)
  IN /\ db' = IF sweep THEN Deactivate(d1, cur) ELSE d1
     /\ last' = [variant |-> variant, games |-> g, deactivate_missing |-> sweep,
                 before |-> db,
                 new_games |-> NewGames(db, g),
                 updated_games |-> IF variant = "all" THEN UpdatedAll(db, g)
                                   ELSE UpdatedSteam(db, g),
                 deactivated_games |-> IF sweep THEN Cardinality(Missing(d1, cur)) ELSE 0]

\* SteamSpyAllCollector.save_games_to_database is called
SaveGamesAll(g, dm) ==
  /\ lpc = "off"
  /\ SaveGamesToDatabase("all", g, dm)
  /\ UNCHANGED <<outerVars, gateVars, taskVars, collVars, lpc, page, max_pages, upstream, totals,
                 fetched, saved, db0, lret>>

\* SteamGameListCollector.save_games_to_database is called
SaveGamesSteam(g) ==
  /\ lpc = "off"
  /\ SaveGamesToDatabase("steam", g, TRUE)
  /\ UNCHANGED <<outerVars, gateVars, taskVars, collVars, lpc, page, max_pages, upstream, totals,
                 fetched, saved, db0, lret>>

\* ------------------------------------- reconciler: integrity conflict
\* SteamSpyAllCollector.save_games_to_database when the INSERT of the new game x
\* violates the uniqueness of app_id (a row with that app_id was inserted after
\* the existence check).  The INSERT is sent at the first flush after
\* session.add(game): with an autoflush session at the next query, otherwise at
\* session.commit().

\* the game that follows x in games (0: x is the last one)
NextInList(g, x) ==
  IF \E a \in current_app_ids(g) : a > x
  THEN CHOOSE a \in current_app_ids(g) : a > x /\ \A b \in current_app_ids(g) : b > x => a <= b
  ELSE 0

\* the IntegrityError leaves the function: it is raised by the sweep query or by
\* session.commit(), which are outside the try block
ConflictRaises(g, x, af) == ~af \/ NextInList(g, x) = 0

\* the games whose changes are in the transaction at the commit: the error is
\* raised by the query for the game after x, the handler's session.rollback()
\* discards every change made so far and that game is skipped
AfterRollback(g, x) == [a \in ItemIds |-> IF a > NextInList(g, x) THEN g[a] ELSE ""]

\* a call is made on a games table left by earlier calls
InitConflict ==
  /\ InitGate
  /\ InitTasks
  /\ InitCollOff
  /\ InitOuterOff
  /\ db \in [ItemIds -> {NoGame} \cup [name : Names, is_active : BOOLEAN]]
  /\ last = NoCall
  /\ lpc = "off"
  /\ page = 0
  /\ max_pages = -1
  /\ upstream = [a \in ItemIds |-> -1]
  /\ totals = NoTotals
  /\ fetched = <<>>
  /\ saved = <<>>
  /\ db0 = [a \in ItemIds |-> NoGame]
  /\ lret = NoReturn

\* save_games_to_database(games, session, deactivate_missing) where the INSERT of
\* game x fails; af: the session autoflushes
SaveGamesAllConflict(g, dm, x, af) ==
  /\ lpc = "off"
  /\ g[x] # ""
  /\ db[x] = NoGame
  /\ LET cur == current_app_ids(g)
         counted == cur \ {NextInList(g, x)}
         d1 == ApplyGamesAll(db, AfterRollback(g, x))
     IN  IF ConflictRaises(g, x, af)
         THEN /\ db' = db
              /\ conflict' = [games |-> g, deactivate_missing |-> dm, item |-> x,
                              autoflush |-> af, before |-> db, after |-> db, raised |-> TRUE,
                              new_games |-> 0, updated_games |-> 0, deactivated_games |-> 0]
         ELSE /\ db' = IF dm THEN Deactivate(d1, cur) ELSE d1
              /\ conflict' = [games |-> g, deactivate_missing |-> dm, item |-> x,
                              autoflush |-> af, before |-> db, after |-> db', raised |-> FALSE,
                              new_games |-> Cardinality({a \in counted : db[a] = NoGame}),
                              updated_games |-> Cardinality({a \in counted : db[a] # NoGame}),
                              deactivated_games |->
                                IF dm THEN Cardinality(Missing(d1, cur)) ELSE 0]
  /\ UNCHANGED <<gateVars, taskVars, collVars, workerVars, exportVars, priceVars, batchVars, skip_storefront, last, lpc,
                 page, max_pages, upstream, totals, fetched, saved, db0, lret>>

\* ------------------------------------------------------ listing collector
\* parse_all_response(response) for the response of page p: the valid entries,
\* as Game(app_id, name, is_active=True); the listing carries the current name
PageGames(p) == [a \in ItemIds |-> IF upstream[a] = p THEN "new" ELSE ""]

\* mutant: the cap is tested one page late
AtCap_late(p, mp) == mp # -1 /\ p > mp

\* max_pages is not None and page >= max_pages
AtCap(p, mp) == mp # -1 /\ p >= mp

\* mutant: the page number is not advanced
NextPage_same(p) == p

\* page += 1
NextPage(p) == p + 1

\* app_ids are labels: they are numbered in listing order, the unlisted ones last
ListingRank(pg) == IF pg = -1 THEN MaxPages ELSE pg

\* a run of collect_and_save_games(session, max_pages) starts on a games table
\* left by earlier runs, against an upstream listing of at most MaxPages pages
InitListing ==
  /\ InitGate
  /\ InitTasks
  /\ InitCollOff
  /\ InitOuterOff
  /\ db \in [ItemIds -> {NoGame, [name |-> "old", is_active |-> TRUE],
                                  [name |-> "old", is_active |-> FALSE]}]
  /\ db0 = db
  /\ last = NoCall
  /\ lpc = "loop"
  /\ page = 0
  /\ max_pages \in {-1} \cup 0..MaxPages
  /\ upstream \in [ItemIds -> -1..(MaxPages - 1)]
  /\ \A a, b \in ItemIds : a < b => ListingRank(upstream[a]) <= ListingRank(upstream[b])
  /\ totals = NoTotals
  /\ fetched = <<>>
  /\ saved = <<>>
  /\ lret = NoReturn

\* while True: the cap is not reached; response = await self.fetch_games_page(page)
\* -> make_request(APIEndpoint.STEAMSPY_ALL_API, url), run by task 1
FetchGamesPage ==
  /\ lpc = "loop"
  /\ ~AtCap(page, max_pages)
  /\ lpc' = "fetch"
  /\ fetched' = Append(fetched, page)
  /\ pc' = [pc EXCEPT ![1] = "throttle"]
  /\ ep' = [ep EXCEPT ![1] = "steamspy_all_api"]
  /\ op' = [op EXCEPT ![1] = "fetch_games_page"]
  /\ UNCHANGED <<outerVars, gateVars, collVars, waited, attempts, result, payload, arg, rec,
                 db, last, page, max_pages, upstream, totals, saved, db0, lret>>

\* while True: the cap is reached: break, return the totals
Finish ==
  /\ lpc = "loop"
  /\ AtCap(page, max_pages)
  /\ lpc' = "done"
  /\ lret' = totals
  /\ UNCHANGED <<outerVars, gateVars, taskVars, collVars,
                 db, last, page, max_pages, upstream, totals, fetched, saved, db0>>

\* fetch_games_page returned: pages_processed += 1; an empty page (or one without
\* a valid game) ends the run; otherwise save_games_to_database(games, session,
\* page == 0), the totals are updated and page += 1
PageFetched ==
  /\ lpc = "fetch"
  /\ pc[1] = "returned"
  /\ LET g == PageGames(page)
         n == Cardinality(current_app_ids(g))
         counted == [totals EXCEPT !.pages_processed = @ + 1]
     IN IF n = 0
        THEN /\ totals' = counted
             /\ lret' = counted
             /\ lpc' = "done"
             /\ UNCHANGED <<db, last, page, saved>>
        ELSE /\ SaveGamesToDatabase("all", g, page = 0)
             /\ totals' = [counted EXCEPT
                             !.total_games_processed = @ + n,
                             !.new_games = @ + last'.new_games,
                             !.updated_games = @ + last'.updated_games,
                             !.deactivated_games = @ + last'.deactivated_games]
             /\ saved' = Append(saved, page)
             /\ page' = NextPage(page)
             /\ lpc' = "loop"
             /\ UNCHANGED lret
  /\ pc' = [pc EXCEPT ![1] = "idle"]
  /\ op' = [op EXCEPT ![1] = "none"]
  /\ attempts' = [attempts EXCEPT ![1] = 0]
  /\ result' = [result EXCEPT ![1] = "none"]
  /\ payload' = [payload EXCEPT ![1] = NoResponse]
  /\ UNCHANGED <<outerVars, gateVars, collVars, ep, waited, arg, rec, max_pages, upstream, fetched, db0>>

\* fetch_games_page raised: except Exception: break, return the totals
PageFailed ==
  /\ lpc = "fetch"
  /\ pc[1] = "raised"
  /\ lpc' = "done"
  /\ lret' = totals
  /\ UNCHANGED <<outerVars, gateVars, taskVars, collVars,
                 db, last, page, max_pages, upstream, totals, fetched, saved, db0>>

\* ------------------------------------------- ParallelMetadataFetcher
\* workers/parallel_fetcher.py.  The collectors are called through their batch
\* entry points; a call either returns or raises (a store failure).

\* the input lists of process_games_parallel: n games, n = 0 .. MaxGames
GameInputs == {[k \in 1..n |-> k] : n \in 0..MaxGames}

\* the slices only of the full batches
Batches_full(g, b) ==
  [k \in 1..(Len(g) \div b) |-> SubSeq(g, (k - 1) * b + 1, k * b)]

\* for i in range(0, len(games), batch_size): batch = games[i:i + batch_size]
Batches(g, b) ==
  [k \in 1..((Len(g) + b - 1) \div b) |-> SubSeq(g, (k - 1) * b + 1, Min(k * b, Len(g)))]

\* the storefront collector is called as soon as the coroutine starts
StageAfter_storefirst(stage, hs) ==
  CASE stage = "created" -> IF hs THEN "steam_store" ELSE "steamspy"
    [] stage = "steamspy" -> "done"
    [] stage = "steam_store" -> "done"

\* process_batch: collect_metadata_for_games is awaited first, then, with a
\* steam_store_collector, collect_storefront_data_for_games, then return games
StageAfter(stage, hs) ==
  CASE stage = "created" -> "steamspy"
    [] stage = "steamspy" -> IF hs THEN "steam_store" ELSE "done"
    [] stage = "steam_store" -> "done"

\* the awaiter is resumed with a list once every awaitable has settled
GatherReady_settled == \A k \in DOMAIN bpc : bpc[k] \in {"done", "raised"}

\* asyncio.gather(*batch_tasks) has a result list when every awaitable returned
GatherReady == \A k \in DOMAIN bpc : bpc[k] = "done"

Call(c, e) == [collector |-> c, event |-> e]

\* the collector calls a coroutine makes on entering a stage
Entering(stage) == IF stage = "done" THEN <<>> ELSE <<Call(stage, "call")>>

\* a call of process_games_parallel(games, session) starts
InitWorker ==
  /\ InitGate
  /\ InitTasks
  /\ InitListOff
  /\ InitCollOff
  /\ InitExportOff
  /\ InitPriceOff
  /\ conflict = NoConflict
  /\ InitBatchOff
  /\ skip_storefront = FALSE
  /\ pf_games \in GameInputs
  /\ pf_batch_size \in 1..MaxBatch
  /\ steam_store_collector \in BOOLEAN
  /\ wpc = "start"
  /\ batch_tasks = <<>>
  /\ bpc = <<>>
  /\ calls = <<>>
  /\ completed_batches = <<>>
  /\ raisedBy = 0

\* process_games_parallel up to the await of asyncio.gather
ProcessGamesParallel ==
  /\ wpc = "start"
  /\ IF pf_games = <<>>
     THEN /\ wpc' = "returned"
          /\ completed_batches' = <<>>
          /\ UNCHANGED <<batch_tasks, bpc, calls>>
     ELSE /\ batch_tasks' = Batches(pf_games, pf_batch_size)
          /\ bpc' = [k \in DOMAIN batch_tasks' |-> "created"]
          /\ calls' = [k \in DOMAIN batch_tasks' |-> <<>>]
          /\ wpc' = "gather"
          /\ UNCHANGED completed_batches
  /\ UNCHANGED <<gateVars, taskVars, collVars, listVars, batchVars, skip_storefront, conflict, priceVars, exportVars, pf_games, pf_batch_size,
                 steam_store_collector, raisedBy>>

\* the event loop starts the coroutine of batch k: process_batch up to its first await
ProcessBatch(k) ==
  /\ wpc \in {"gather", "raised"}
  /\ k \in DOMAIN bpc
  /\ bpc[k] = "created"
  /\ IF batch_tasks[k] = <<>>
     THEN bpc' = [bpc EXCEPT ![k] = "done"] /\ UNCHANGED calls
     ELSE /\ bpc' = [bpc EXCEPT ![k] = StageAfter("created", steam_store_collector)]
          /\ calls' = [calls EXCEPT ![k] = @ \o Entering(bpc'[k])]
  /\ UNCHANGED <<gateVars, taskVars, collVars, listVars, batchVars, skip_storefront, conflict, priceVars, exportVars, pf_games, pf_batch_size,
                 steam_store_collector, wpc, batch_tasks, completed_batches, raisedBy>>

\* the collector call awaited by the coroutine of batch k returns
CollectorReturns(k) ==
  /\ wpc \in {"gather", "raised"}
  /\ k \in DOMAIN bpc
  /\ bpc[k] \in {"steamspy", "steam_store"}
  /\ bpc' = [bpc EXCEPT ![k] = StageAfter(bpc[k], steam_store_collector)]
  /\ calls' = [calls EXCEPT ![k] = (@ \o <<Call(bpc[k], "return")>>) \o Entering(bpc'[k])]
  /\ UNCHANGED <<gateVars, taskVars, collVars, listVars, batchVars, skip_storefront, conflict, priceVars, exportVars, pf_games, pf_batch_size,
                 steam_store_collector, wpc, batch_tasks, completed_batches, raisedBy>>

\* the collector call awaited by the coroutine of batch k raises: process_batch
\* has no handler, and gather takes the first exception of its awaitables
CollectorRaises(k) ==
  /\ wpc \in {"gather", "raised"}
  /\ k \in DOMAIN bpc
  /\ bpc[k] \in {"steamspy", "steam_store"}
  /\ bpc' = [bpc EXCEPT ![k] = "raised"]
  /\ calls' = [calls EXCEPT ![k] = @ \o <<Call(bpc[k], "raise")>>]
  /\ raisedBy' = IF raisedBy = 0 THEN k ELSE raisedBy
  /\ UNCHANGED <<gateVars, taskVars, collVars, listVars, batchVars, skip_storefront, conflict, priceVars, exportVars, pf_games, pf_batch_size,
                 steam_store_collector, wpc, batch_tasks, completed_batches>>

\* await asyncio.gather(*batch_tasks) returns the results in the order of the
\* awaitables; process_batch returns its games
GatherReturns ==
  /\ wpc = "gather"
  /\ GatherReady
  /\ wpc' = "returned"
  /\ completed_batches' = [k \in DOMAIN batch_tasks |-> batch_tasks[k]]
  /\ UNCHANGED <<gateVars, taskVars, collVars, listVars, batchVars, skip_storefront, conflict, priceVars, exportVars, pf_games, pf_batch_size,
                 steam_store_collector, batch_tasks, bpc, calls, raisedBy>>

\* await asyncio.gather(*batch_tasks) raises the first exception; the other
\* awaitables are not cancelled
GatherRaises ==
  /\ wpc = "gather"
  /\ raisedBy # 0
  /\ wpc' = "raised"
  /\ UNCHANGED <<gateVars, taskVars, collVars, listVars, batchVars, skip_storefront, conflict, priceVars, exportVars, pf_games, pf_batch_size,
                 steam_store_collector, batch_tasks, bpc, calls, completed_batches, raisedBy>>

\* ------------------------------------- collector calls of concurrent batches
\* workers/parallel_fetcher.py with the collector calls of each process_batch
\* coroutine followed to their awaits.  The tables are lists of inserted rows.

MaxList == 2
SpyChunk == 2
StoreChunk == 1

\* the batch_size default of collect_metadata_for_games / collect_storefront_data_for_games
\* (process_batch passes none), scaled to the lists of the model
ChunkSize(stage) == IF stage = "steamspy" THEN SpyChunk ELSE StoreChunk

\* the lists process_games_parallel can be called with: any list of games, the
\* same game may be listed twice
BatchInputs == UNION {[1..n -> ItemIds] : n \in 0..MaxList}

\* the statuses a fetch of the collector of a stage returns; fetch_storefront_data
\* always ends in its handler (APIEndpoint has no STEAM_STORE_APPDETAILS_API)
FetchStatuses(stage) ==
  IF stage = "steamspy" THEN {"success", "not_found", "failed"} ELSE {"failed"}

\* batch = games[i:i + batch_size] of the collector call of batch k
ChunkOf(k) ==
  SubSeq(batch_tasks[k], chunk_i[k] + 1,
         Min(chunk_i[k] + ChunkSize(bpc[k]), Len(batch_tasks[k])))

\* tasks of a chunk of n games: no fetch has completed
NewTasks(n) == [x \in 1..n |-> "pending"]

\* the results are read as soon as one fetch has completed
ChunkComplete_any(k) ==
  \E x \in DOMAIN batch_metadata[k] : batch_metadata[k][x] # "pending"

\* batch_metadata = await asyncio.gather(*tasks): every fetch has completed
ChunkComplete(k) ==
  \A x \in DOMAIN batch_metadata[k] : batch_metadata[k][x] # "pending"

\* the query never finds a row
Existing_none(rows, a) == 0

\* existing = session.query(...).filter_by(app_id=...).first(): the position of
\* the first row of the item, 0 for None
Existing(rows, a) ==
  IF \E x \in DOMAIN rows : rows[x].app_id = a
  THEN CHOOSE x \in DOMAIN rows :
         rows[x].app_id = a /\ \A y \in 1..(x - 1) : rows[y].app_id # a
  ELSE 0

\* save_*_to_database([record], session): update the existing row or add the
\* record, commit
SaveRow(rows, r) ==
  IF Existing(rows, r.app_id) # 0
  THEN [rows EXCEPT ![Existing(rows, r.app_id)].fetch_status = r.fetch_status]
  ELSE Append(rows, r)

\* for j, metadata in enumerate(batch_metadata): save_*_to_database([metadata])
RECURSIVE SaveChunk(_, _, _, _)
SaveChunk(rows, ids, sts, n) ==
  IF n = 0 THEN rows
  ELSE SaveRow(SaveChunk(rows, ids, sts, n - 1),
               [app_id |-> ids[n], fetch_status |-> sts[n]])

\* the orchestrator's total is reported
Total_all(k) == Len(pf_games)

\* total_games = len(games) of the collector call of batch k
Total(k) == Len(batch_tasks[k])

\* progress_callback(current, total_games, ...) after each save of the chunk:
\* current = successful_fetches + failed_fetches + not_found of this call
Invocations(k, n) ==
  [x \in 1..n |-> [batch |-> k, current |-> processed[k] + x, total |-> Total(k),
                   stage |-> bpc[k]]]

\* a call of process_games_parallel(games, session, progress_callback) starts
\* on empty statistics and storefront tables
InitBatches ==
  /\ InitGate
  /\ InitTasks
  /\ InitListOff
  /\ InitCollOff
  /\ InitExportOff
  /\ InitPriceOff
  /\ conflict = NoConflict
  /\ pf_games \in BatchInputs
  /\ pf_batch_size \in 1..MaxBatch
  /\ steam_store_collector \in BOOLEAN
  /\ wpc = "start"
  /\ batch_tasks = <<>>
  /\ bpc = <<>>
  /\ calls = <<>>
  /\ completed_batches = <<>>
  /\ raisedBy = 0
  /\ skip_storefront = FALSE
  /\ chunk_i = [k \in DOMAIN Batches(pf_games, pf_batch_size) |-> 0]
  /\ batch_metadata = [k \in DOMAIN Batches(pf_games, pf_batch_size) |-> <<>>]
  /\ processed = [k \in DOMAIN Batches(pf_games, pf_batch_size) |-> 0]
  /\ meta_rows = <<>>
  /\ store_rows = <<>>
  /\ progress = <<>>

\* the event loop starts the coroutine of batch k: process_batch up to the
\* gather of the first chunk of collect_metadata_for_games
ProcessBatchToGather(k) ==
  /\ wpc = "gather"
  /\ k \in DOMAIN bpc
  /\ bpc[k] = "created"
  /\ IF batch_tasks[k] = <<>>
     THEN bpc' = [bpc EXCEPT ![k] = "done"] /\ UNCHANGED <<calls, batch_metadata>>
     ELSE /\ bpc' = [bpc EXCEPT ![k] = StageAfter("created", steam_store_collector)]
          /\ calls' = [calls EXCEPT ![k] = @ \o Entering(bpc'[k])]
          /\ batch_metadata' =
               [batch_metadata EXCEPT
                  ![k] = NewTasks(Min(ChunkSize(bpc'[k]), Len(batch_tasks[k])))]
  /\ UNCHANGED <<gateVars, taskVars, collVars, listVars, exportVars, priceVars, conflict,
                 skip_storefront,
                 pf_games, pf_batch_size, steam_store_collector, wpc, batch_tasks,
                 completed_batches, raisedBy, chunk_i, processed, meta_rows, store_rows,
                 progress>>

\* fetch x of the chunk of batch k completes with status st.  The coroutines of
\* all batches were scheduled before it: the event loop has run each of them to
\* its first await by then
FetchCompletes(k, x, st) ==
  /\ wpc = "gather"
  /\ \A b \in DOMAIN bpc : bpc[b] # "created"
  /\ k \in DOMAIN bpc
  /\ bpc[k] \in {"steamspy", "steam_store"}
  /\ st \in FetchStatuses(bpc[k])
  /\ x \in DOMAIN batch_metadata[k]
  /\ batch_metadata[k][x] = "pending"
  /\ batch_metadata' = [batch_metadata EXCEPT ![k][x] = st]
  /\ UNCHANGED <<gateVars, taskVars, collVars, listVars, exportVars, priceVars, conflict,
                 skip_storefront,
                 workerVars, chunk_i, processed, meta_rows, store_rows, progress>>

\* the gather of the chunk of batch k returns: each result is saved, counted and
\* reported; the coroutine runs on to the gather of the next chunk, of the first
\* chunk of the next collector call, or to the return of process_batch
ChunkGathered(k) ==
  /\ wpc = "gather"
  /\ k \in DOMAIN bpc
  /\ bpc[k] \in {"steamspy", "steam_store"}
  /\ ChunkComplete(k)
  /\ LET n == Len(ChunkOf(k))
         more == chunk_i[k] + ChunkSize(bpc[k]) < Len(batch_tasks[k])
         next == IF more THEN bpc[k] ELSE StageAfter(bpc[k], steam_store_collector)
         off == IF more THEN chunk_i[k] + ChunkSize(bpc[k]) ELSE 0
     IN  /\ IF bpc[k] = "steamspy"
            THEN /\ meta_rows' = SaveChunk(meta_rows, ChunkOf(k), batch_metadata[k], n)
                 /\ UNCHANGED store_rows
            ELSE /\ store_rows' = SaveChunk(store_rows, ChunkOf(k), batch_metadata[k], n)
                 /\ UNCHANGED meta_rows
         /\ progress' = progress \o Invocations(k, n)
         /\ processed' = [processed EXCEPT ![k] = IF more THEN @ + n ELSE 0]
         /\ chunk_i' = [chunk_i EXCEPT ![k] = off]
         /\ bpc' = [bpc EXCEPT ![k] = next]
         /\ calls' = [calls EXCEPT ![k] =
                        IF more THEN @
                        ELSE (@ \o <<Call(bpc[k], "return")>>) \o Entering(next)]
         /\ batch_metadata' =
              [batch_metadata EXCEPT
                 ![k] = IF next = "done" THEN <<>>
                        ELSE NewTasks(Min(ChunkSize(next), Len(batch_tasks[k]) - off))]
  /\ UNCHANGED <<gateVars, taskVars, collVars, listVars, exportVars, priceVars, conflict,
                 skip_storefront,
                 pf_games, pf_batch_size, steam_store_collector, wpc, batch_tasks,
                 completed_batches, raisedBy>>

\* ------------------------------------------------------- Export Projector
\* scripts/export_master_json.py and the endpoint of app/discovery/blueprint.py,
\* over the columns and record keys that differ between rows; the keys copied
\* straight from one storefront column are left out.

ExportLimit == 2

million_plus_ranges ==
  {"1,000,000 .. 2,000,000", "2,000,000 .. 5,000,000", "5,000,000 .. 10,000,000",
   "10,000,000 .. 20,000,000", "20,000,000 .. 50,000,000", "50,000,000 .. 100,000,000",
   "100,000,000 .. 200,000,000"}

\* a game_metadata row; the documents of the statistics endpoint carry
\* positive = 10 and negative = 2
Metadata(st, o, t, r, d, pb) ==
  [fetch_status |-> st, owners_estimate |-> o, tags_json |-> t, score_rank |-> r,
   developer |-> d, publisher |-> pb,
   positive_reviews |-> IF st = "success" THEN Some(10) ELSE None,
   negative_reviews |-> IF st = "success" THEN Some(2) ELSE None]

\* rows parse_steamspy_data builds from documents of the statistics endpoint
ParsedMetadata ==
  { Metadata("success", Some("1,000,000 .. 2,000,000"), Some({"Action"}), Some(1),
             Some("Valve"), Some("Valve")),
    Metadata("success", Some("2,000,000 .. 5,000,000"), Some({"Action"}), Some(2),
             Some(""), Some("")),
    Metadata("success", Some("1,000,000 .. 2,000,000"), Some({"Action"}), None, None, None),
    Metadata("success", Some("1,000,000 .. 2,000,000"), Some({}), Some(1),
             Some("Valve"), Some("Valve")),
    Metadata("success", Some("0 .. 20,000"), Some({"Action"}), Some(1),
             Some("Valve"), Some("Valve")) }

\* rows fetch_game_metadata returns: a parsed row, or a row with only its status set
FetchedMetadata ==
  ParsedMetadata \cup {Metadata(st, None, None, None, None, None) : st \in {"failed", "not_found"}}

\* the columns of StorefrontData the export reads (the model has no screenshots
\* and no movies column)
Storefront(st, d, pb) == [fetch_status |-> st, developers |-> d, publishers |-> pb]

\* rows fetch_storefront_data returns: APIEndpoint has no member
\* STEAM_STORE_APPDETAILS_API, so every call ends in its handler, which returns
\* a row with only its status set
FetchedStorefront == { Storefront("failed", None, None) }

\* variant: only the status of an existing row is overwritten
SaveMetadataRow_statusonly(existing, r) ==
  IF existing.fetch_status # "absent"
  THEN [existing EXCEPT !.fetch_status = r.fetch_status]
  ELSE r

\* save_metadata_to_database: the columns of an existing row are overwritten
SaveMetadataRow(existing, r) ==
  IF existing.fetch_status # "absent"
  THEN [existing EXCEPT !.developer = r.developer, !.publisher = r.publisher,
                        !.owners_estimate = r.owners_estimate, !.score_rank = r.score_rank,
                        !.positive_reviews = r.positive_reviews,
                        !.negative_reviews = r.negative_reviews,
                        !.tags_json = r.tags_json, !.fetch_status = r.fetch_status]
  ELSE r

\* save_storefront_data_to_database: the columns of an existing row are overwritten
SaveStorefrontRow(existing, r) ==
  IF existing.fetch_status # "absent"
  THEN [existing EXCEPT !.developers = r.developers, !.publishers = r.publishers,
                        !.fetch_status = r.fetch_status]
  ELSE r

\* the rows of any owner estimate are selected
Selected_anyowners(a) ==
  /\ db[a] # NoGame
  /\ game_metadata[a].fetch_status # "absent"
  /\ db[a].is_active
  /\ game_metadata[a].tags_json # None
  /\ game_metadata[a].tags_json # Some({})

\* the join and filters of the query
Selected(a) ==
  /\ db[a] # NoGame
  /\ game_metadata[a].fetch_status # "absent"
  /\ db[a].is_active
  /\ \E o \in million_plus_ranges : game_metadata[a].owners_estimate = Some(o)
  /\ game_metadata[a].tags_json # None
  /\ game_metadata[a].tags_json # Some({})

\* ORDER BY score_rank: ascending, NULLs where the database puts them (first on
\* SQLite, last on PostgreSQL); rows of equal rank in any order
Precedes(a, b, nulls_first) ==
  LET ra == game_metadata[a].score_rank
      rb == game_metadata[b].score_rank
  IN  IF ra = None THEN nulls_first \/ rb = None
      ELSE IF rb = None THEN ~nulls_first
      ELSE ra[1] <= rb[1]

\* the rows the query can return before the limit
QueryResults(nulls_first) ==
  LET sel == {a \in ItemIds : Selected(a)}
  IN  {q \in [1..Cardinality(sel) -> sel] :
         /\ \A x, y \in DOMAIN q : x # y => q[x] # q[y]
         /\ \A x, y \in DOMAIN q : x < y => Precedes(q[x], q[y], nulls_first)}

\* .limit(1000)
Limit(q) == SubSeq(q, 1, Min(ExportLimit, Len(q)))

\* the storefront array is used only when it is not null
Developers_merged(m, s) ==
  IF s.fetch_status # "absent" /\ s.developers # None THEN s.developers
  ELSE IF m.developer # None /\ m.developer # Some("") THEN Some(<<m.developer[1]>>)
  ELSE None

\* "developers": storefront.developers if storefront else ([metadata.developer] if
\* metadata and metadata.developer else None)
Developers(m, s) ==
  IF s.fetch_status # "absent" THEN s.developers
  ELSE IF m.developer # None /\ m.developer # Some("") THEN Some(<<m.developer[1]>>)
  ELSE None

\* "publishers", likewise
Publishers(m, s) ==
  IF s.fetch_status # "absent" THEN s.publishers
  ELSE IF m.publisher # None /\ m.publisher # Some("") THEN Some(<<m.publisher[1]>>)
  ELSE None

\* the tags are never read
Tags_empty(m) == {}

\* tags = metadata.tags_json when it is a dict, {} otherwise
Tags(m) == IF m.tags_json # None THEN m.tags_json[1] ELSE {}

\* to_game_record of scripts/export_master_json.py
export_to_game_record(a) ==
  LET m == game_metadata[a]
      s == storefront_data[a]
  IN  [appId |-> a, name |-> db[a].name,
       developers |-> Developers(m, s), publishers |-> Publishers(m, s),
       developer |-> m.developer, publisher |-> m.publisher, tags |-> Tags(m),
       reviewPos |-> m.positive_reviews, reviewNeg |-> m.negative_reviews]

\* to_game_record of app/discovery/utils.py reads storefront.screenshots and
\* storefront.movies of a game with a storefront_data row: StorefrontData has no
\* such attribute, the read raises AttributeError
ToGameRecordRaises(a) == storefront_data[a].fetch_status # "absent"

\* to_game_record of app/discovery/utils.py, when it returns
to_game_record(a) ==
  LET m == game_metadata[a]
      s == storefront_data[a]
  IN  [appId |-> a, name |-> db[a].name,
       developers |-> Developers(m, s), publishers |-> Publishers(m, s),
       screenshots |-> None, movies |-> None,
       developer |-> m.developer, publisher |-> m.publisher, tags |-> Tags(m),
       reviewPos |-> m.positive_reviews, reviewNeg |-> m.negative_reviews]

\* if record.get('tags') and len(record['tags']) > 0
HasTags(r) == r.tags # {}

\* the tables left by the reconciler and the collectors before any fetch
InitExport ==
  /\ InitGate
  /\ InitTasks
  /\ InitCollOff
  /\ InitWorkerOff
  /\ InitExportOff
  /\ InitPriceOff
  /\ conflict = NoConflict
  /\ InitBatchOff
  /\ skip_storefront = FALSE
  /\ db \in [ItemIds -> {NoGame, [name |-> "new", is_active |-> TRUE],
                         [name |-> "new", is_active |-> FALSE]}]
  /\ last = NoCall
  /\ lpc = "off"
  /\ page = 0
  /\ max_pages = -1
  /\ upstream = [a \in ItemIds |-> -1]
  /\ totals = NoTotals
  /\ fetched = <<>>
  /\ saved = <<>>
  /\ db0 = [a \in ItemIds |-> NoGame]
  /\ lret = NoReturn

\* the statistics collector saves the row it fetched for game a
SaveMetadata(a, r) ==
  /\ db[a] # NoGame
  /\ game_metadata' = [game_metadata EXCEPT ![a] = SaveMetadataRow(@, r)]
  /\ xpc' = "idle"
  /\ script_out' = <<>>
  /\ api_status' = 0
  /\ api_out' = <<>>
  /\ UNCHANGED <<gateVars, taskVars, collVars, listVars, batchVars, skip_storefront, conflict, priceVars, workerVars, storefront_data>>

\* the storefront collector saves the row it fetched for game a
SaveStorefront(a, r) ==
  /\ db[a] # NoGame
  /\ storefront_data' = [storefront_data EXCEPT ![a] = SaveStorefrontRow(@, r)]
  /\ xpc' = "idle"
  /\ script_out' = <<>>
  /\ api_status' = 0
  /\ api_out' = <<>>
  /\ UNCHANGED <<gateVars, taskVars, collVars, listVars, batchVars, skip_storefront, conflict, priceVars, workerVars, game_metadata>>

\* the export script and the endpoint run the same query on the same tables of
\* the same database; the endpoint answers 500 when to_game_record raises
ExportMasterJson ==
  /\ xpc = "idle"
  /\ \E nulls_first \in BOOLEAN : \E q \in QueryResults(nulls_first) :
       /\ script_out' = SelectSeq([x \in DOMAIN Limit(q) |-> export_to_game_record(Limit(q)[x])],
                                  HasTags)
       /\ IF \E x \in DOMAIN Limit(q) : ToGameRecordRaises(Limit(q)[x])
          THEN api_status' = 500 /\ api_out' = <<>>
          ELSE /\ api_status' = 200
               /\ api_out' = SelectSeq([x \in DOMAIN Limit(q) |-> to_game_record(Limit(q)[x])],
                                       HasTags)
  /\ xpc' = "exported"
  /\ UNCHANGED <<gateVars, taskVars, collVars, listVars, batchVars, skip_storefront, conflict, priceVars, workerVars, game_metadata,
                 storefront_data>>

\* ------------------------------------------------------ collect_interleaved
\* scripts/collect_games.py collect_interleaved: page -> metadata -> storefront.
\* The loop head, the fetch of a page and the except branch are those of
\* collect_and_save_games (FetchGamesPage, Finish, PageFailed).

\* the sweep is asked for
deactivate_missing_true == TRUE

\* save_games_to_database(games, session): deactivate_missing: bool = False
deactivate_missing_default == FALSE

\* a run of collect_interleaved(session, max_pages, skip_storefront=...) starts on
\* tables left by earlier runs, without a page cap or with a cap of one page
InitInterleaved ==
  /\ InitGate
  /\ InitTasks
  /\ InitCollOff
  /\ InitWorkerOff
  /\ InitExportOff
  /\ InitPriceOff
  /\ InitBatchOff
  /\ conflict = NoConflict
  /\ skip_storefront \in BOOLEAN
  /\ db \in [ItemIds -> {NoGame, [name |-> "old", is_active |-> TRUE],
                                  [name |-> "old", is_active |-> FALSE]}]
  /\ db0 = db
  /\ last = NoCall
  /\ lpc = "loop"
  /\ page = 0
  /\ max_pages \in {-1, 1}
  /\ upstream \in [ItemIds -> -1..(MaxPages - 1)]
  /\ \A a, b \in ItemIds : a < b => ListingRank(upstream[a]) <= ListingRank(upstream[b])
  /\ totals = NoTotals
  /\ fetched = <<>>
  /\ saved = <<>>
  /\ lret = NoReturn

\* fetch_games_page returned: an empty page (or one without a valid game) ends
\* the run; otherwise save_games_to_database(games, session)
InterleavedPageFetched ==
  /\ lpc = "fetch"
  /\ pc[1] = "returned"
  /\ LET g == PageGames(page)
         n == Cardinality(current_app_ids(g))
     IN IF n = 0
        THEN /\ lret' = totals
             /\ lpc' = "done"
             /\ UNCHANGED <<db, last, saved, totals>>
        ELSE /\ SaveGamesToDatabase("all", g, deactivate_missing_default)
             /\ totals' = [totals EXCEPT !.total_games_processed = @ + n]
             /\ saved' = Append(saved, page)
             /\ lpc' = "collect"
             /\ UNCHANGED lret
  /\ pc' = [pc EXCEPT ![1] = "idle"]
  /\ op' = [op EXCEPT ![1] = "none"]
  /\ attempts' = [attempts EXCEPT ![1] = 0]
  /\ result' = [result EXCEPT ![1] = "none"]
  /\ payload' = [payload EXCEPT ![1] = NoResponse]
  /\ UNCHANGED <<outerVars, gateVars, collVars, ep, waited, arg, rec, page, max_pages, upstream,
                 fetched, db0>>

\* collect_metadata_for_games(games, ...) saves a row per game of the page (the
\* fetches of one page all end alike: r), then, unless skip_storefront,
\* collect_storefront_data_for_games(games, ...); page += 1
InterleavedCollect(r) ==
  /\ lpc = "collect"
  /\ game_metadata' =
       [a \in ItemIds |-> IF a \in current_app_ids(PageGames(page))
                          THEN SaveMetadataRow(game_metadata[a], r)
                          ELSE game_metadata[a]]
  /\ storefront_data' =
       [a \in ItemIds |-> IF ~skip_storefront /\ a \in current_app_ids(PageGames(page))
                          THEN SaveStorefrontRow(storefront_data[a],
                                                 Storefront("failed", None, None))
                          ELSE storefront_data[a]]
  /\ page' = NextPage(page)
  /\ lpc' = "loop"
  /\ UNCHANGED <<gateVars, taskVars, collVars, workerVars, priceVars, conflict, batchVars,
                 skip_storefront, xpc, script_out, api_status, api_out,
                 db, last, max_pages, upstream, totals, fetched, saved, db0, lret>>

\* ---------------------------------------------------------- _convert_price
\* collectors/steamspy_collector.py 129-151 (scripts/generate_master_json_direct.py
\* convert_price has the same body).  Strings are sequences of characters.

MaxCents == 120
MaxDigits == 4

DigitChars == {"0", "1", "5"}
Chars == DigitChars \cup {"x"}
DigitValue(c) == CASE c = "0" -> 0 [] c = "1" -> 1 [] c = "5" -> 5
DigitChar(n) ==
  CASE n = 0 -> "0" [] n = 1 -> "1" [] n = 2 -> "2" [] n = 3 -> "3" [] n = 4 -> "4"
    [] n = 5 -> "5" [] n = 6 -> "6" [] n = 7 -> "7" [] n = 8 -> "8" [] n = 9 -> "9"

\* the strings of at most MaxDigits characters
Strings == UNION {[1..n -> Chars] : n \in 0..MaxDigits}

\* the arguments of _convert_price: None, an int, a str
PriceInputs ==
  {NonePrice} \cup {IntPrice(n) : n \in 0..MaxCents} \cup {StrPrice(cs) : cs \in Strings}

\* int(s) of a str raises ValueError unless s is a decimal literal
IsDecimal(cs) == cs # <<>> /\ \A x \in DOMAIN cs : cs[x] \in DigitChars

\* int(s) of a decimal literal
RECURSIVE IntOfStr(_)
IntOfStr(cs) ==
  IF cs = <<>> THEN 0
  ELSE 10 * IntOfStr(SubSeq(cs, 1, Len(cs) - 1)) + DigitValue(cs[Len(cs)])

\* str(n) of a natural number
RECURSIVE StrOfInt(_)
StrOfInt(n) == IF n < 10 THEN <<DigitChar(n)>> ELSE StrOfInt(n \div 10) \o <<DigitChar(n % 10)>>

\* f"{cents / 100:.2f}": the quotient is the double nearest to cents / 100, whose
\* rounding to two places is cents / 100 itself
FormatDollars(cents) ==
  (StrOfInt(cents \div 100) \o <<".">>) \o
  <<DigitChar((cents % 100) \div 10), DigitChar(cents % 10)>>

Free == <<"F", "r", "e", "e">>

\* Python truthiness of None, an int, a str
Falsy(v) ==
  \/ v.type = "NoneType"
  \/ (v.type = "int" /\ v.int = 0)
  \/ (v.type = "str" /\ v.str = <<>>)

\* _convert_price(price_cents)
convert_price(v) ==
  IF Falsy(v) THEN None
  ELSE IF v.type = "str" /\ ~IsDecimal(v.str) THEN None
  ELSE LET cents == IF v.type = "int" THEN v.int ELSE IntOfStr(v.str)
       IN  IF cents = 0 THEN Some(Free) ELSE Some(FormatDollars(cents))

\* a call _convert_price(price_cents) is about to be made
InitPrice ==
  /\ InitGate
  /\ InitTasks
  /\ InitListOff
  /\ InitCollOff
  /\ InitWorkerOff
  /\ InitExportOff
  /\ conflict = NoConflict
  /\ InitBatchOff
  /\ skip_storefront = FALSE
  /\ price_cents \in PriceInputs
  /\ price = None
  /\ ppc = "call"

\* the call returns
ConvertPrice ==
  /\ ppc = "call"
  /\ price' = convert_price(price_cents)
  /\ ppc' = "returned"
  /\ UNCHANGED <<gateVars, taskVars, collVars, listVars, batchVars, skip_storefront, conflict, workerVars, exportVars, price_cents>>

\* ---------------------------------------------------------- the pipeline
\* scripts/collect_games.py: the listing run, then the statistics of the active
\* games, then the export

\* a listing run starts on an empty store
InitPipeline ==
  /\ InitListing
  /\ db = [a \in ItemIds |-> NoGame]
  /\ max_pages = -1

\* the rows the statistics fetch of the pipeline returns: the row parsed from the
\* document {owners: "1,000,000 .. 2,000,000", tags: {"Action": ..}, positive: 10,
\* negative: 2}, or a failed row
PipelineMetadata ==
  { Metadata("success", Some("1,000,000 .. 2,000,000"), Some({"Action"}), None, None, None),
    Metadata("failed", None, None, None, None, None) }

\* collect_metadata_parallel after the listing run: the statistics collector
\* saves the row it fetched for the active game a
CollectGameMetadata(a, r) ==
  /\ lpc = "done"
  /\ db[a] # NoGame
  /\ db[a].is_active
  /\ SaveMetadata(a, r)

\* the export after the listing run
PipelineExport ==
  /\ lpc = "done"
  /\ ExportMasterJson

\* ---------------------------------------------------------- specifications
\* the Rate Gate alone: tasks calling acquire on the endpoint keys
NextGate ==
  \/ \E t \in Tasks, e \in UsedEndpoints : Throttle(t, e)
  \/ \E t \in Tasks : Acquire(t)
  \/ Tick

SpecGate == Init /\ [][NextGate]_vars

\* make_request: admission followed by the GET and its retry
Next ==
  \/ \E t \in Tasks, e \in UsedEndpoints : MakeRequest(t, e)
  \/ \E t \in Tasks : Acquire(t)
  \/ \E t \in Tasks, o \in GetOutcomes : \E d \in Responses(t) : FirstGet(t, o, d)
  \/ \E t \in Tasks, o \in GetOutcomes : \E d \in Responses(t) : RetryGet(t, o, d)
  \/ Tick

Spec == Init /\ [][Next]_vars

\* one run of a collector's batch entry point
NextCollect ==
  \/ StartBatch
  \/ \E t \in Tasks : FetchGameMetadata(t)
  \/ \E t \in Tasks : FetchStorefrontData(t)
  \/ \E t \in Tasks : Acquire(t)
  \/ \E t \in Tasks, o \in GetOutcomes : \E d \in Responses(t) : FirstGet(t, o, d)
  \/ \E t \in Tasks, o \in GetOutcomes : \E d \in Responses(t) : RetryGet(t, o, d)
  \/ \E t \in Tasks : FetchReturn(t)
  \/ SaveItem
  \/ Notify
  \/ CountItem
  \/ SaveBatch
  \/ Return
  \/ Tick

SpecCollect == InitCollect /\ [][NextCollect]_vars

\* the Reconciler: any sequence of save_games_to_database calls on the games table
NextReconcile ==
  \/ \E g \in GameLists, dm \in BOOLEAN : SaveGamesAll(g, dm)
  \/ \E g \in GameLists : SaveGamesSteam(g)

SpecReconcile == Init /\ [][NextReconcile]_vars

\* one run of the listing collector
NextListing ==
  \/ FetchGamesPage
  \/ \E t \in Tasks : Acquire(t)
  \/ \E t \in Tasks, o \in GetOutcomes : \E d \in Responses(t) : FirstGet(t, o, d)
  \/ \E t \in Tasks, o \in GetOutcomes : \E d \in Responses(t) : RetryGet(t, o, d)
  \/ PageFetched
  \/ PageFailed
  \/ Finish
  \/ Tick

SpecListing == InitListing /\ [][NextListing]_vars

\* one call of process_games_parallel
NextWorker ==
  \/ ProcessGamesParallel
  \/ \E k \in 1..MaxGames : ProcessBatch(k)
  \/ \E k \in 1..MaxGames : CollectorReturns(k)
  \/ \E k \in 1..MaxGames : CollectorRaises(k)
  \/ GatherReturns
  \/ GatherRaises

SpecWorker == InitWorker /\ [][NextWorker]_vars

\* collector writes and exports of the tables
NextExport ==
  \/ \E a \in ItemIds, r \in FetchedMetadata : SaveMetadata(a, r)
  \/ \E a \in ItemIds, r \in FetchedStorefront : SaveStorefront(a, r)
  \/ ExportMasterJson

SpecExport == InitExport /\ [][NextExport]_vars

\* one call of process_games_parallel, the collector calls followed
NextBatches ==
  \/ ProcessGamesParallel
  \/ \E k \in 1..MaxList : ProcessBatchToGather(k)
  \/ \E k \in 1..MaxList, x \in 1..Max(SpyChunk, StoreChunk), st \in FetchStatus :
       FetchCompletes(k, x, st)
  \/ \E k \in 1..MaxList : ChunkGathered(k)
  \/ GatherReturns

SpecBatches == InitBatches /\ [][NextBatches]_vars

\* one run of collect_interleaved
NextInterleaved ==
  \/ FetchGamesPage
  \/ \E t \in Tasks : Acquire(t)
  \/ \E t \in Tasks, o \in GetOutcomes : \E d \in Responses(t) : FirstGet(t, o, d)
  \/ \E t \in Tasks, o \in GetOutcomes : \E d \in Responses(t) : RetryGet(t, o, d)
  \/ InterleavedPageFetched
  \/ \E r \in PipelineMetadata : InterleavedCollect(r)
  \/ PageFailed
  \/ Finish
  \/ Tick

SpecInterleaved == InitInterleaved /\ [][NextInterleaved]_vars

\* one call of _convert_price
NextPrice == ConvertPrice

SpecPrice == InitPrice /\ [][NextPrice]_vars

\* save_games_to_database calls of the listing collector that hit an integrity
\* conflict
NextConflict ==
  \E g \in GameLists, dm \in BOOLEAN, x \in ItemIds, af \in BOOLEAN :
    SaveGamesAllConflict(g, dm, x, af)

SpecConflict == InitConflict /\ [][NextConflict]_vars

\* one listing run, statistics collection and exports
NextPipeline ==
  \/ FetchGamesPage
  \/ \E t \in Tasks : Acquire(t)
  \/ \E t \in Tasks, o \in GetOutcomes : \E d \in Responses(t) : FirstGet(t, o, d)
  \/ \E t \in Tasks, o \in GetOutcomes : \E d \in Responses(t) : RetryGet(t, o, d)
  \/ PageFetched
  \/ PageFailed
  \/ Tick
  \/ \E a \in ItemIds, r \in PipelineMetadata : CollectGameMetadata(a, r)
  \/ PipelineExport

SpecPipeline == InitPipeline /\ [][NextPipeline]_vars

\* the event loop resumes every runnable coroutine, the clock advances, and
\* every GET ends (with a response or an error)
FairSpecListing ==
  /\ SpecListing
  /\ WF_vars(Tick)
  /\ WF_vars(Acquire(1))
  /\ WF_vars(\E o \in GetOutcomes : \E d \in Responses(1) : FirstGet(1, o, d))
  /\ WF_vars(\E o \in GetOutcomes : \E d \in Responses(1) : RetryGet(1, o, d))
  /\ WF_vars(FetchGamesPage)
  /\ WF_vars(PageFetched)
  /\ WF_vars(PageFailed)
  /\ WF_vars(Finish)

\* fair scheduling of the Rate Gate: the clock advances and every runnable
\* acquire is eventually resumed by the event loop
FairSpecGate ==
  /\ SpecGate
  /\ WF_vars(Tick)
  /\ \A t \in Tasks : WF_vars(Acquire(t))

\* ------------------------------------------------------------------ claims

\* C1: for every endpoint key, the number of admissions granted in any sliding
\* window of length time_period never exceeds max_rate.  (recent[e] holds the
\* admissions of the window that ends now.)
C1_WindowLimit ==
  \A e \in APIEndpoint : Len(recent[e]) <= limiters[e].max_rate

\* C2: every GET that make_request sends to an endpoint is covered by its own
\* admission: GETs sent to an endpoint never exceed the admissions granted for it.
C2_GetsCovered ==
  \A e \in APIEndpoint : GetsSent(e) <= Admissions(e)

\* C3: endpoint keys are independent: an acquire on one key changes the limiter
\* state of no other key, and it is admitted whenever its own key has capacity,
\* whatever the state of the other keys.
C3_EndpointsIndependent ==
  [][\A t \in Tasks :
       Acquire(t) =>
         /\ \A e \in APIEndpoint \ {ep[t]} :
              /\ level'[e] = level[e]
              /\ elapsed'[e] = elapsed[e]
              /\ waiters'[e] = waiters[e]
              /\ admitLog'[e] = admitLog[e]
         /\ HasCapacity(ep[t]) => pc'[t] = "returned"
         /\ pc'[t] = "returned" => Len(admitLog'[ep[t]]) = Len(admitLog[ep[t]]) + 1]_vars

\* C3 witness: the listing key is exhausted (a task waits on a full bucket) at
\* the instant a task of the statistics key has been admitted.
C3_Witness ==
  \E t1, t2 \in Tasks :
    /\ ep[t1] = "steamspy_all_api" /\ pc[t1] = "wait"
    /\ ~HasCapacity("steamspy_all_api")
    /\ ep[t2] = "steamspy_api" /\ pc[t2] = "returned"
    /\ Len(recent["steamspy_api"]) >= 1
    /\ recent["steamspy_api"][Len(recent["steamspy_api"])] = 0

C5_ListingSpacing ==
  \A k \in 1..Len(admitLog["steamspy_all_api"]) :
    admitLog["steamspy_all_api"][k] >= (k - 1) * limiters["steamspy_all_api"].time_period

\* C5 witness: three admissions have been granted on the listing key.
C5_Witness == Len(admitLog["steamspy_all_api"]) = 3

\* C6: a fetch surfaces a transient failure to its caller only after the third
\* attempt has failed.
C6_ThreeAttempts ==
  \A t \in Tasks :
    (op[t] = "make_request" /\ pc[t] = "raised" /\ result[t] = "http_error")
      => attempts[t] = 3

\* C7: fetch_game_metadata never raises and returns one record for the requested
\* item with fetch_attempts = 1: failed when the fetch raised, not_found when the
\* payload is empty or has no identifier, success otherwise.
C7_FetchMetadataRecord ==
  [][\A t \in Tasks :
       (op[t] = "fetch_game_metadata" /\ pc[t] # "done" /\ pc'[t] = "done") =>
         /\ pc[t] \in {"returned", "raised"}
         /\ rec'[t].app_id = arg[t]
         /\ rec'[t].fetch_attempts = 1
         /\ rec'[t].fetch_status =
              (IF pc[t] = "raised" THEN "failed"
               ELSE IF payload[t].keys = {} \/ "appid" \notin payload[t].keys
                       \/ payload[t].appid <= 0
                    THEN "not_found"
               ELSE "success")]_vars

\* C7 witness: in one batch a fetch has ended not_found and another failed.
C7_Witness ==
  \E t1, t2 \in Tasks :
    /\ op[t1] = "fetch_game_metadata" /\ pc[t1] = "done" /\ rec[t1].fetch_status = "not_found"
    /\ op[t2] = "fetch_game_metadata" /\ pc[t2] = "done" /\ rec[t2].fetch_status = "failed"

\* C8: fetch_storefront_data ends failed only when the fetch raised a transport
\* exception; otherwise not_found exactly when the response has no entry for the
\* identifier or the entry has success = false, and success when success = true.
C8_StorefrontRecord ==
  [][\A t \in Tasks :
       (op[t] = "fetch_storefront_data" /\ pc[t] # "done" /\ pc'[t] = "done") =>
         /\ pc[t] \in {"returned", "raised"}
         /\ rec'[t].fetch_status =
              (IF pc[t] = "raised" THEN "failed"
               ELSE IF "entry" \notin payload[t].keys \/ ~payload[t].success
                    THEN "not_found"
               ELSE "success")]_vars

\* number of input items whose stored record has the given status
StoredWith(status) ==
  Cardinality({k \in 1..Len(games) : store[games[k]].fetch_status = status})

\* C9: whatever the mixture of outcomes, the batch entry point processes every
\* input item, persists one record per item, and returns counts with
\* successful_fetches + failed_fetches + not_found = total_games_processed = len(items).
C9_BatchCompletes ==
  cpc = "done" =>
    /\ ret.total_games_processed = Len(games)
    /\ ret.successful_fetches + ret.failed_fetches + ret.not_found = Len(games)
    /\ Len(commits) = Len(games)
    /\ \A k \in 1..Len(games) : commits[k] = games[k] /\ store[games[k]] # Absent
    /\ ret.successful_fetches = StoredWith("success")
    /\ ret.failed_fetches = StoredWith("failed")
    /\ ret.not_found = StoredWith("not_found")

\* C9 witness: a run over three items has returned with one success, one
\* failure and one not_found.
C9_Witness ==
  /\ cpc = "done"
  /\ Len(games) = 3
  /\ ret.successful_fetches = 1 /\ ret.failed_fetches = 1 /\ ret.not_found = 1

\* C10: at every point of a run every item of every earlier batch is already
\* committed to the store; only results of the batch in flight are unpersisted.
C10_EarlierBatchesCommitted ==
  cpc \in {"loop", "gather", "notify", "save"} =>
    \A k \in 1..Min(i, Len(games)) :
      /\ k <= Len(commits)
      /\ commits[k] = games[k]
      /\ store[games[k]] # Absent

\* C10 witness: the second batch is being fetched (nothing of it is saved yet)
\* while the store, empty before the run, holds the records of the first batch.
C10_Witness ==
  /\ cpc = "gather" /\ i >= 2 /\ j = 1 /\ batch_size = 2
  /\ \E t \in Tasks : pc[t] \in {"created", "throttle", "wait", "get1", "sleep"}
  /\ store[games[1]] # Absent /\ store[games[2]] # Absent
  /\ store[games[3]] = Absent

\* C11: write-then-notify: in every collector batch entry point the record of an
\* item is committed before the progress callback of that item fires, so at any
\* time the k-th callback observed belongs to an item (the k-th of the input)
\* whose record is already committed.
C11_WriteThenNotify ==
  \A k \in 1..Len(callbacks) : k <= Len(commits) /\ commits[k] = games[k]

ChangedRows ==
  {a \in current_app_ids(last.games) :
     last.before[a] # NoGame /\ db[a] # last.before[a]}

\* C13: reconciliation is idempotent: when save_games_to_database is called twice
\* in succession with the same fresh set, the second call reports new_games = 0
\* and updated_games = 0, deactivates no further item and leaves every name and
\* active flag unchanged; and a call that changed no existing row reports
\* updated_games = 0.
C13_ReconcileIdempotent ==
  [][/\ (/\ last.variant # "none"
         /\ last'.variant = last.variant
         /\ last'.games = last.games
         /\ last'.deactivate_missing = last.deactivate_missing)
        => /\ last'.new_games = 0
           /\ last'.updated_games = 0
           /\ last'.deactivated_games = 0
           /\ db' = db
     /\ (ChangedRows' = {}) => last'.updated_games = 0]_vars

\* C14: after a call with deactivate_missing = true every item of the fresh set is
\* active (also one that was inactive), every item that was active and is absent
\* from the fresh set is inactive, and deactivated_games is the number of items
\* that went from active to inactive; with deactivate_missing = false no item
\* goes from active to inactive.
C14_DeactivationCorrect ==
  LET cur == current_app_ids(last.games)
      wentInactive == {a \in ItemIds : last.before[a].is_active /\ ~db[a].is_active}
  IN last.variant # "none" =>
       /\ \A a \in ItemIds : db[a] # NoGame \/ last.before[a] = NoGame
       /\ IF last.deactivate_missing
          THEN /\ \A a \in cur : db[a] # NoGame /\ db[a].is_active
               /\ \A a \in ItemIds \ cur : last.before[a].is_active => ~db[a].is_active
               /\ last.deactivated_games = Cardinality(wentInactive)
          ELSE /\ wentInactive = {}
               /\ last.deactivated_games = 0

\* C14 witness: a call of the listing collector's reconciler with
\* deactivate_missing = true has reactivated an inactive item of the fresh set and
\* deactivated an active item missing from it.
C14_Witness ==
  /\ last.variant = "all" /\ last.deactivate_missing
  /\ last.deactivated_games = 1
  /\ \E a, b \in ItemIds :
       /\ last.games[a] # "" /\ last.before[a] # NoGame /\ ~last.before[a].is_active
       /\ db[a].is_active
       /\ last.games[b] = "" /\ last.before[b].is_active /\ ~db[b].is_active

\* C15: in one call no item is counted twice: every item adds at most 1 to at most
\* one of new_games, updated_games, deactivated_games, so new_games +
\* updated_games is at most the number of distinct fresh app_ids and
\* deactivated_games counts only stored items outside the fresh set.
C15_NoDoubleCount ==
  LET cur == current_app_ids(last.games)
  IN /\ last.new_games + last.updated_games <= Cardinality(cur)
     /\ last.deactivated_games <=
          Cardinality({a \in ItemIds \ cur : last.before[a] # NoGame})

\* C16: soft deactivation only: no call removes a row of the games table, no call
\* creates, changes or deletes a statistics or storefront record, and a row that
\* is deactivated keeps its name.
C16_SoftDeactivationOnly ==
  [][/\ \A a \in ItemIds : db[a] # NoGame => db'[a] # NoGame
     /\ store' = store
     /\ \A a \in ItemIds :
          (db[a] # NoGame /\ db[a].is_active /\ ~db'[a].is_active) =>
             db'[a] = [db[a] EXCEPT !.is_active = FALSE]]_vars

\* C16 witness: the latest call deactivated a row, which is still in the table
\* under its name.
C16_Witness ==
  \E a \in ItemIds :
    /\ last.before[a].is_active /\ last.games[a] = ""
    /\ db[a] # NoGame /\ ~db[a].is_active /\ db[a].name = last.before[a].name

\* C18: the deactivation sweep of collect_and_save_games never deactivates an item
\* of a page that has not been fetched yet: at every point of a run, also one that
\* stops early, no item the upstream lists on a not-yet-fetched page has gone
\* from active to inactive since the run started.
C18_LaterPagesKeptActive ==
  lpc # "off" =>
    \A a \in ItemIds :
      (upstream[a] >= Len(fetched) /\ db0[a].is_active) => db[a].is_active

\* C19: pagination is sequential: fetch_games_page is called with pages 0, 1, 2,
\* ... in increasing order, none skipped or repeated, and the fetch of page k + 1
\* starts only after the save of page k has committed.
C19_PagesSequential ==
  /\ \A k \in 1..Len(fetched) : fetched[k] = k - 1
  /\ \A k \in 1..Len(saved) : saved[k] = k - 1
  /\ Len(saved) <= Len(fetched)
  /\ lpc = "fetch" => (Len(fetched) = page + 1 /\ Len(saved) = page)

\* C19 witness: page 2 is being fetched after pages 0 and 1 were fetched and saved.
C19_Witness ==
  /\ lpc = "fetch" /\ pc[1] = "get1"
  /\ fetched = <<0, 1, 2>>
  /\ saved = <<0, 1>>

\* C20: pagination terminates: every page fetched before the last one had items,
\* no page is fetched once the cap is reached, nothing is fetched after the run
\* has stopped, the run eventually returns, and the returned pages_processed
\* counts every page that was fetched, the terminating empty one included.
C20_PaginationTerminates ==
  /\ [](\A k \in 1..(Len(fetched) - 1) : current_app_ids(PageGames(fetched[k])) # {})
  /\ [](max_pages # -1 => Len(fetched) <= max_pages)
  /\ [](lpc = "done" =>
          /\ lret.pages_processed = Len(fetched) - (IF pc[1] = "raised" THEN 1 ELSE 0)
          /\ \/ pc[1] = "raised"
             \/ AtCap(page, max_pages)
             \/ (fetched # <<>> /\ current_app_ids(PageGames(fetched[Len(fetched)])) = {}))
  /\ [][lpc = "done" => fetched' = fetched]_vars
  /\ <>(lpc = "done")

\* C20 witness: an uncapped run has returned after the empty page 2, with
\* pages_processed = 3.
C20_Witness ==
  /\ lpc = "done" /\ max_pages = -1
  /\ fetched = <<0, 1, 2>>
  /\ lret.pages_processed = 3
  /\ lret.total_games_processed = MaxItems

\* ------------------------------------------------ claims: the orchestrator
RECURSIVE Flatten(_)
Flatten(bs) == IF bs = <<>> THEN <<>> ELSE Head(bs) \o Flatten(Tail(bs))

\* the number of calls of collector c made by the coroutine of batch k
NumCalls(k, c) == Cardinality({x \in DOMAIN calls[k] : calls[k][x] = Call(c, "call")})

\* C21: process_games_parallel partitions its n games into ceil(n / batch_size)
\* consecutive batches, each non-empty and of at most batch_size games, whose
\* concatenation in order is the input; the statistics collector is invoked
\* exactly once by every batch coroutine that has run; an empty input returns
\* an empty list and invokes no collector.
C21_Partition ==
  (wpc \notin {"off", "start"}) =>
    IF pf_games = <<>>
    THEN wpc = "returned" /\ completed_batches = <<>> /\ batch_tasks = <<>> /\ calls = <<>>
    ELSE /\ Len(batch_tasks) * pf_batch_size >= Len(pf_games)
         /\ (Len(batch_tasks) - 1) * pf_batch_size < Len(pf_games)
         /\ \A k \in DOMAIN batch_tasks :
              /\ Len(batch_tasks[k]) >= 1
              /\ Len(batch_tasks[k]) <= pf_batch_size
              /\ NumCalls(k, "steamspy") = (IF bpc[k] = "created" THEN 0 ELSE 1)
         /\ Flatten(batch_tasks) = pf_games

\* C21 witness: a call has returned whose input was cut into a full batch and a
\* shorter last batch, each with one call of the statistics collector.
C21_Witness ==
  /\ wpc = "returned"
  /\ Len(batch_tasks) >= 2
  /\ Len(batch_tasks[Len(batch_tasks)]) < pf_batch_size
  /\ \A k \in DOMAIN batch_tasks : NumCalls(k, "steamspy") = 1

\* C22: batch isolation: a call of process_games_parallel in which the collector
\* raised for one batch ends by returning the per-batch results, one slot per
\* batch (the failing batch's slot holding its exception).
C22_BatchIsolation ==
  (raisedBy # 0 /\ wpc \in {"returned", "raised"}) =>
    (wpc = "returned" /\ Len(completed_batches) = Len(batch_tasks))

C24_GatherAll ==
  /\ DOMAIN bpc = DOMAIN batch_tasks
  /\ (wpc = "returned" /\ pf_games # <<>>) =>
       /\ \A k \in DOMAIN bpc : bpc[k] = "done"
       /\ completed_batches = batch_tasks
  /\ \A k \in DOMAIN calls :
       /\ \A x \in DOMAIN calls[k] :
            calls[k][x] = Call("steam_store", "call") =>
              /\ steam_store_collector
              /\ x > 1
              /\ calls[k][x - 1] = Call("steamspy", "return")
       /\ (bpc[k] = "done" /\ steam_store_collector) => NumCalls(k, "steam_store") = 1

\* C24 witness: two batch coroutines are in flight at once, one awaiting the
\* statistics collector, the other already awaiting the storefront collector.
C24_Witness ==
  \E k1, k2 \in DOMAIN bpc : bpc[k1] = "steamspy" /\ bpc[k2] = "steam_store"

\* -------------------------------------------------- claims: the export
\* the two arrays of an export
Exports == {script_out} \cup (IF api_status = 200 THEN {api_out} ELSE {})

C26_RankOrder ==
  (xpc = "exported") =>
    \A out \in Exports :
      /\ Len(out) <= ExportLimit
      /\ \A x, y \in DOMAIN out :
           x < y =>
             LET rx == game_metadata[out[x].appId].score_rank
                 ry == game_metadata[out[y].appId].score_rank
             IN  /\ (rx = None) => (ry = None)
                 /\ (rx # None /\ ry # None) => rx[1] <= ry[1]

C28_ScriptEqualsApi == (xpc = "exported") => (api_status = 200 /\ script_out = api_out)

\* ---------------------------------------------- claims: price formatting
\* C29: for a price in cents given as an integer or as a decimal string,
\* _convert_price returns "Free" for zero and, for a positive value c, the string
\* of c div 100, a point and the two digits of c mod 100; for the empty string
\* and for None it returns None.
C29_PriceFormat ==
  (ppc = "returned") =>
    /\ (price_cents.type = "NoneType" \/ price_cents = StrPrice(<<>>)) => price = None
    /\ (price_cents.type = "int" \/ (price_cents.type = "str" /\ IsDecimal(price_cents.str))) =>
         LET c == IF price_cents.type = "int" THEN price_cents.int
                  ELSE IntOfStr(price_cents.str)
         IN  /\ (c = 0) => price = Some(Free)
             /\ (c > 0) =>
                  /\ price # None
                  /\ Len(price[1]) >= 4
                  /\ price[1][Len(price[1]) - 2] = "."
                  /\ SubSeq(price[1], 1, Len(price[1]) - 3) = StrOfInt(c \div 100)
                  /\ SubSeq(price[1], Len(price[1]) - 1, Len(price[1])) =
                       <<DigitChar((c % 100) \div 10), DigitChar(c % 10)>>

\* ------------------------------------------ claims: integrity conflict
\* C30: when the INSERT of one new game of a save_games_to_database call violates
\* uniqueness, the call returns its counts without raising, and every other new
\* game of the call is in the table afterwards: only the offending game is
\* rolled back and skipped.
C30_ConflictIsolated ==
  (conflict # NoConflict) =>
    /\ ~conflict.raised
    /\ \A a \in current_app_ids(conflict.games) :
         (a # conflict.item /\ conflict.before[a] = NoGame) =>
           conflict.after[a] = [name |-> conflict.games[a], is_active |-> TRUE]

\* ------------------------------------------------- claims: end to end
\* the listing has exactly the game x, on page 0, and the run on the empty store
\* saved page 0 and ended on the empty page 1
ListedAlone(x) ==
  /\ upstream[x] = 0
  /\ \A a \in ItemIds \ {x} : upstream[a] = -1
  /\ lpc = "done"
  /\ saved = <<0>>
  /\ lret.pages_processed = 2

Admitted(l) ==
  { t \in Tasks : /\ op[t] = "make_request"
                  /\ pc[t] \in {"get1", "sleep", "returned", "raised"}
                  /\ limiter(ep[t]) = l }

\* C32: make_request issues at most two GETs per call. It takes one admission
\* and issues one GET; a second GET is issued only after the first raised
\* httpx.HTTPError and one second has passed, and its result is returned or its
\* error raised; any other exception on the first GET is raised at once.
C32_AtMostTwoGets ==
  /\ [](/\ \A l \in APIEndpoint : Len(admitLog[l]) = Cardinality(Admitted(l))
        /\ \A t \in Tasks :
             /\ attempts[t] <= 2
             /\ pc[t] = "get1" => attempts[t] = 0
             /\ pc[t] = "sleep" => attempts[t] = 1
             /\ (pc[t] = "raised" /\ attempts[t] = 1) => result[t] = "other_error"
             /\ pc[t] = "raised" => result[t] \in {"http_error", "other_error"}
             /\ pc[t] = "returned" => result[t] = "ok" /\ attempts[t] \in 1..2)
  /\ [][\A t \in Tasks :
         /\ (attempts'[t] # attempts[t]) =>
              /\ attempts'[t] = attempts[t] + 1
              /\ \/ pc[t] = "get1"
                 \/ pc[t] = "sleep" /\ waited[t] >= 1
              /\ pc[t] = "sleep" => pc'[t] \in {"returned", "raised"}
         /\ (pc[t] # "sleep" /\ pc'[t] = "sleep") => pc[t] = "get1"]_vars

\* C32 witness: one call returned the payload of its second GET and another
\* raised a non-HTTP error after its first GET.
C32_Witness ==
  \E t, s \in Tasks :
    /\ op[t] = "make_request" /\ pc[t] = "returned" /\ attempts[t] = 2
    /\ op[s] = "make_request" /\ pc[s] = "raised" /\ attempts[s] = 1
       /\ result[s] = "other_error"

\* the export holds a record of game a
Exported(out, a) == \E x \in DOMAIN out : out[x].appId = a

OneRowPerItem(rows) ==
  \A x, y \in DOMAIN rows : x # y => rows[x].app_id # rows[y].app_id

\* C34: game_metadata and storefront_data hold at most one row per item in
\* every state, also while several process_batch coroutines that list the same
\* item run on the one session: a save is one step from its query to its commit.
C34_OneRecordPerItem == OneRowPerItem(meta_rows) /\ OneRowPerItem(store_rows)

\* C34 witness: two batches of the same one item have run, each through both
\* collector calls, and each table has the one row.
C34_Witness ==
  /\ Len(batch_tasks) = 2
  /\ batch_tasks[1] = batch_tasks[2]
  /\ wpc = "returned"
  /\ Len(meta_rows) = 1
  /\ Len(store_rows) = 1
  /\ Len(progress) = 4

\* the games of the pages the run saved; the active rows of the games table
SeenOnPages == {a \in ItemIds : \E x \in DOMAIN saved : upstream[a] = saved[x]}
ActiveItems == {a \in ItemIds : db[a] # NoGame /\ db[a].is_active}

\* collect_and_save_games returned after every fetch succeeded and the last
\* page fetched was empty
EndedOnEmptyPage ==
  /\ lpc = "done"
  /\ Len(fetched) = Len(saved) + 1
  /\ lret.pages_processed = Len(fetched)

\* C35 as stated: after a run that fetched every page without error and ended
\* on an empty page, the active games are exactly the games seen on its pages.
C35_ActiveIsSeen == EndedOnEmptyPage => ActiveItems = SeenOnPages

\* C35: after a run that saved page 0, fetched every page without error and
\* ended on an empty page, the active games are exactly the games seen on its
\* pages: the games of later pages are active again, the others inactive.  (A
\* run whose page 0 is empty saves nothing and leaves every row as it was.)
C35_ActiveIsSeenAfterPage0 ==
  /\ (EndedOnEmptyPage /\ saved # <<>>) => ActiveItems = SeenOnPages
  /\ (EndedOnEmptyPage /\ saved = <<>>) => db = db0

\* C35 witness: a run of two pages and the empty third; the game of page 1 was
\* active before the run and is active after it.
C35_Witness ==
  /\ EndedOnEmptyPage
  /\ saved = <<0, 1>>
  /\ \E b \in ItemIds :
       /\ upstream[b] = 1 /\ db0[b] # NoGame /\ db0[b].is_active
       /\ b \in ActiveItems

\* C36: every fetch a collector starts passes make_request an endpoint key that
\* is a member of APIEndpoint (each member has a limiter), the storefront
\* collector's key included: no fetch ends for lack of a configured endpoint.
C36_EndpointsConfigured ==
  [][\A t \in Tasks :
       (pc[t] = "created" /\ pc'[t] # "created") =>
         /\ pc'[t] = "throttle"
         /\ ep'[t] \in APIEndpoint
         /\ ep'[t] \in DOMAIN limiters]_vars

\* C37: after save_storefront_data_to_database the stored row of the item is
\* the fetched record, field by field, whether or not a row existed before, and
\* it has the screenshots and movies fields of the fetched record.
C37_UpsertStoresEveryField ==
  [][\A a \in ItemIds :
       storefront_data'[a] # storefront_data[a] =>
         /\ storefront_data'[a] \in FetchedStorefront
         /\ {"screenshots", "movies"} \subseteq DOMAIN storefront_data'[a]]_vars

\* C38: with two or more batches on one progress callback, every invocation
\* carries the count and the total of one collector call of its own batch: the
\* count never exceeds the size of that batch, the total is less than the number
\* of games of the orchestrator, and over a whole run the sequence of counts is
\* not increasing.
C38_ProgressPerBatch ==
  /\ \A x \in DOMAIN progress :
       /\ progress[x].total = Len(batch_tasks[progress[x].batch])
       /\ progress[x].current \in 1..progress[x].total
       /\ Len(batch_tasks) >= 2 => progress[x].total < Len(pf_games)
  /\ (wpc = "returned" /\ Len(batch_tasks) >= 2) =>
       \E x, y \in DOMAIN progress : x < y /\ progress[y].current <= progress[x].current

\* C38 witness: two batches have run and their invocations are interleaved, the
\* second batch reporting before the first.
C38_Witness ==
  /\ wpc = "returned"
  /\ Len(batch_tasks) = 2
  /\ \E x, y \in DOMAIN progress :
       /\ x < y
       /\ progress[x].batch = 2 /\ progress[y].batch = 1
       /\ progress[x].current = 1 /\ progress[y].current = 1
       /\ progress[x].total = 1 /\ Len(pf_games) = 2

\* the coroutine of batch k has moved in this step
Moved(k) ==
  \/ bpc'[k] # bpc[k]
  \/ chunk_i'[k] # chunk_i[k]
  \/ processed'[k] # processed[k]
  \/ batch_metadata'[k] # batch_metadata[k]

\* every fetch of the current chunk of batch k has completed; none is saved yet
FetchedUnsaved(k) ==
  /\ bpc[k] \in {"steamspy", "steam_store"}
  /\ batch_metadata[k] # <<>>
  /\ \A x \in DOMAIN batch_metadata[k] : batch_metadata[k][x] # "pending"

\* C39: the fetches of all batches are in flight at once (no fetch completes
\* while a batch has not started its own), and a batch saves and reports nothing
\* of a chunk before every fetch of that chunk has completed.
C39_SaveAfterWholeChunk ==
  /\ []((\E k \in DOMAIN batch_metadata :
            \E x \in DOMAIN batch_metadata[k] : batch_metadata[k][x] # "pending")
         => \A b \in DOMAIN bpc : bpc[b] # "created")
  /\ [][(meta_rows' # meta_rows \/ store_rows' # store_rows \/ progress' # progress) =>
         \E k \in DOMAIN bpc :
           /\ Moved(k)
           /\ \A b \in DOMAIN bpc \ {k} : ~Moved(b)
           /\ FetchedUnsaved(k)
           /\ Len(progress') = Len(progress) + Len(batch_metadata[k])]_vars

\* C39 witness: two or more batches, every one with the results of its whole
\* chunk fetched, nothing saved yet.
C39_Witness ==
  /\ Len(batch_tasks) >= 2
  /\ \A k \in DOMAIN bpc : FetchedUnsaved(k)
  /\ meta_rows = <<>>
  /\ progress = <<>>

\* C40: collect_interleaved never asks save_games_to_database for the sweep: no
\* step of a run changes a game from active to inactive (or removes its row).
C40_NeverDeactivates ==
  [][\A a \in ItemIds :
       (db[a] # NoGame /\ db[a].is_active) => (db'[a] # NoGame /\ db'[a].is_active)]_vars

\* C40 witness: a run of one page has ended on the empty second; a game that
\* was active before it and is on no page is still active, and the save
\* reports no deactivation.
C40_Witness ==
  /\ lpc = "done"
  /\ saved = <<0>>
  /\ fetched = <<0, 1>>
  /\ last.deactivated_games = 0
  /\ ~last.deactivate_missing
  /\ \E a \in ItemIds :
       /\ upstream[a] = -1
       /\ db0[a] # NoGame /\ db0[a].is_active
       /\ db[a] # NoGame /\ db[a].is_active

====
